---- MODULE Spec2Model ----
(***************************************************************************)
(* Model of the case resolution and extraction pipeline of                 *)
(* src/KomaCore/onbid_parser.py (class OnbidParser).                       *)
(*                                                                         *)
(* Text is modelled as a sequence of lexical tokens (a token is a maximal  *)
(* chunk the code's regular expressions treat as a unit: a digit group, a  *)
(* prefix such as "onbid:", a hyphen, ...).  A fetched document is a       *)
(* record of the features the code tests on it.  Time is counted in tenths *)
(* of a second.                                                            *)
(***************************************************************************)
EXTENDS Integers, Sequences, FiniteSets, TLC

\* ------------------------------------------------------------------ bounds
\* Requests served one after another in one behaviour of Spec (SpecSeq
\* serves one more, so that a request can find what an earlier one stored).
MaxRequests == 1
\* fetch_content calls each thread issues in SpecRate.
MaxCalls == 3
\* Last instant (in tenths of a second) SpecRate follows.
MaxTime == 66

\* ------------------------------------------------------------- None values
\* Python's None for a string, a text (token sequence) and an integer.
None == "None"
NoneSeq == <<"<None>">>
NoStatus == -1

\* ------------------------------------------------------------------ tokens
\* Digit groups that occur in the modelled texts, with their lengths.
DigitToks ==
    {"2024", "01774", "05180", "06499", "99999", "006", "001", "010", "999",
     "1234567", "7654321", "12"}

DigitLen(t) ==
    CASE t \in {"2024"} -> 4
      [] t \in {"01774", "05180", "06499", "99999"} -> 5
      [] t \in {"006", "001", "010", "999"} -> 3
      [] t \in {"1234567", "7654321"} -> 7
      [] t \in {"12"} -> 2
      [] OTHER -> 0

\* str.isdigit() of a text: non-empty and digits only.
IsDigit(s) == Len(s) > 0 /\ \A i \in 1..Len(s) : s[i] \in DigitToks

\* Python truthiness of an optional text: not None and not "".
Truthy(s) == s # NoneSeq /\ Len(s) > 0

\* str.replace(tok, ""): every occurrence of the token is removed.
RECURSIVE Remove(_, _)
Remove(s, tok) ==
    IF Len(s) = 0 THEN <<>>
    ELSE IF Head(s) = tok THEN Remove(Tail(s), tok)
    ELSE <<Head(s)>> \o Remove(Tail(s), tok)

\* CASE_PATTERN = r"^\d{4}-\d{5}-\d{3}$" under re.match: the three digit
\* groups with hyphens; "$" also matches before one trailing newline.
CasePatternCore(s) ==
    /\ Len(s) >= 5
    /\ s[1] \in DigitToks /\ DigitLen(s[1]) = 4
    /\ s[2] = "-"
    /\ s[3] \in DigitToks /\ DigitLen(s[3]) = 5
    /\ s[4] = "-"
    /\ s[5] \in DigitToks /\ DigitLen(s[5]) = 3

MatchesCasePattern(s) ==
    /\ CasePatternCore(s)
    /\ \/ Len(s) = 5
       \/ Len(s) = 6 /\ s[6] = "\n"

\* re.search(prefix + r"(\d+)", text): the digit group right after the first
\* occurrence of the prefix token that is followed by one, else NoneSeq.
RECURSIVE SearchDigitsAfter(_, _)
SearchDigitsAfter(s, prefix) ==
    IF Len(s) < 2 THEN NoneSeq
    ELSE IF s[1] = prefix /\ s[2] \in DigitToks THEN <<s[2]>>
    ELSE SearchDigitsAfter(Tail(s), prefix)

\* --------------------------------------------------- Identifier Normalizer
\* A normalization result (requested_case, case_key, case_no, source_hint).
NormResult(req, key, no, hint) ==
    [requested_case |-> req, case_key |-> key, case_no |-> no, source_hint |-> hint]

_normalize_url_input(url) ==
    LET byParam == SearchDigitsAfter(url, "cltrNo=")
        byPath == SearchDigitsAfter(url, "/auction/case/")
    IN  IF byParam # NoneSeq
          THEN NormResult(url, <<"onbid:">> \o byParam, NoneSeq, "url")
        ELSE IF byPath # NoneSeq
          THEN NormResult(url, <<"onbid:">> \o byPath, NoneSeq, "url")
        ELSE NormResult(url, NoneSeq, NoneSeq, "invalid")

normalize_case_key(request) ==
    LET case_input == IF Truthy(request.case) THEN request.case ELSE request.url
    IN  IF ~Truthy(case_input)
          THEN NormResult(NoneSeq, NoneSeq, NoneSeq, "invalid")
        ELSE IF Head(case_input) = "http"
          THEN _normalize_url_input(case_input)
        ELSE IF Head(case_input) = "onbid:"
          THEN LET cltr_no == Remove(case_input, "onbid:")
               IN  IF IsDigit(cltr_no)
                     THEN NormResult(case_input, <<"onbid:">> \o cltr_no, NoneSeq, "url")
                     ELSE NormResult(case_input, NoneSeq, NoneSeq, "invalid")
        ELSE IF MatchesCasePattern(case_input)
          THEN NormResult(case_input, <<"case:">> \o case_input, case_input, "case")
        ELSE NormResult(case_input, NoneSeq, NoneSeq, "invalid")

\* Raw inputs a caller sends.
CaseKnown == <<"2024", "-", "01774", "-", "006">>
CaseOther == <<"2024", "-", "99999", "-", "999">>

RawInputs ==
    { <<>>,
      <<" ">>,
      CaseKnown,
      CaseOther,
      <<"http", "cltrNo=", "1234567">>,
      <<"http", "x">>,
      <<"onbid:", "1234567">>,
      <<"x">> }

\* --------------------------------------------------------------- documents
\* Labels and keywords the validators look for (Korean in the source):
\* caseNoLabel 사건번호, useLabel 용도, addressLabel 소재지, appraisalLabel 감정가,
\* minBidLabel 최저입찰가, roundLabel 차수, saleKw 매각, deadlineKw 입찰마감,
\* noticeKw 공고번호.
\* Response fields the extractor can fill.
DataKeys ==
    {"asset_type", "use_type", "address", "appraisal", "min_bid", "round",
     "duty_deadline", "areas.building_m2", "areas.land_m2", "areas.land_right"}

ContentKeys == {"asset_type", "use_type", "address", "appraisal", "min_bid"}

\* A document: the features of a text that the code tests.
\*   none       the value is Python's None
\*   len        len(content)
\*   labels     labels and keywords that occur in it
\*   cltr       the digits of the first "cltrNo=<digits>" in it, or None
\*   captcha    a CAPTCHA/WAF indicator occurs in it
\*   attach     an attachment-indicator pattern matches
\*   html       it contains "<html", "<table" or "<div"
\*   errPhrase  one of the fixed error/empty-result phrases occurs
\*   prices     how many of the three strict price patterns match
\*   priceKw    how many of the four price-unit keywords occur
\*   loginNav   "로그인" occurs more often than "매각" and "입찰" does not occur
\*   parsed     response fields parse_real_content finds in it
\*   mock       response fields the legacy text parser finds in it
\*   keywordCase the case number of a "keyword=" parameter in it, or NoneSeq
\*   caseText   the case number the whole text consists of, or NoneSeq
\*   synth      it was built by _format_real_property_as_html
\*   caseNo     the case number printed in the page after the case-number
\*              label, or NoneSeq (no code path reads it: CASE_PATTERN is
\*              anchored to the whole text)
BaseDoc ==
    [none |-> FALSE, len |-> 5000, labels |-> {}, cltr |-> None,
     captcha |-> FALSE, attach |-> FALSE, html |-> TRUE, errPhrase |-> FALSE,
     prices |-> 0, priceKw |-> 0, loginNav |-> FALSE, parsed |-> {}, mock |-> {},
     keywordCase |-> NoneSeq, caseText |-> NoneSeq, synth |-> FALSE,
     caseNo |-> NoneSeq]

NoneDoc == [BaseDoc EXCEPT !.none = TRUE, !.len = 0, !.html = FALSE]

EmptyDoc == [BaseDoc EXCEPT !.len = 0, !.html = FALSE]

AllDetailLabels ==
    {"caseNoLabel", "useLabel", "addressLabel", "appraisalLabel", "minBidLabel",
     "roundLabel", "saleKw"}

FullParsed ==
    {"asset_type", "use_type", "address", "appraisal", "min_bid", "round",
     "duty_deadline", "areas.building_m2", "areas.land_m2"}

\* A genuine detail page of the listing with internal id 1234567.
DetailDoc ==
    [BaseDoc EXCEPT !.len = 20000, !.labels = AllDetailLabels, !.cltr = "1234567",
                    !.attach = TRUE, !.prices = 2, !.priceKw = 3,
                    !.parsed = FullParsed, !.caseNo = CaseKnown]

\* A detail page of another listing (internal id 7654321) without round and
\* deadline.
OtherDetailDoc ==
    [BaseDoc EXCEPT !.len = 20000, !.labels = AllDetailLabels, !.cltr = "7654321",
                    !.prices = 1, !.priceKw = 2,
                    !.parsed = FullParsed \ {"round", "duty_deadline"},
                    !.caseNo = CaseOther]

\* A page with the detail labels and exactly 1000 characters.
Len1000Doc ==
    [BaseDoc EXCEPT !.len = 1000, !.labels = {"appraisalLabel", "minBidLabel"},
                    !.attach = TRUE, !.prices = 1, !.priceKw = 2,
                    !.parsed = {"appraisal", "min_bid"}]

\* A short fragment with the detail labels.
ShortDoc ==
    [BaseDoc EXCEPT !.len = 500, !.labels = {"appraisalLabel", "minBidLabel"},
                    !.priceKw = 1]

\* A search-result page linking to internal id 1234567.
SearchDoc ==
    [BaseDoc EXCEPT !.len = 8000, !.labels = {"caseNoLabel", "saleKw"},
                    !.cltr = "1234567", !.priceKw = 1]

\* A search-result page whose only link carries a two-digit number.
SearchShortIdDoc ==
    [BaseDoc EXCEPT !.len = 8000, !.labels = {"caseNoLabel"}, !.cltr = "12"]

\* The site's "page not found" page, echoing the searched case number.
ErrorDoc ==
    [BaseDoc EXCEPT !.len = 3000, !.errPhrase = TRUE,
                    !.keywordCase = <<"2024", "-", "01774", "-", "006">>]

\* A CAPTCHA challenge page.
CaptchaDoc == [BaseDoc EXCEPT !.len = 2000, !.captcha = TRUE]

\* A plain-text (non HTML) listing.
TextDoc ==
    [BaseDoc EXCEPT !.len = 1500, !.html = FALSE,
                    !.labels = {"appraisalLabel", "minBidLabel", "addressLabel"},
                    !.mock = {"address", "appraisal", "min_bid", "areas.land_right"}]

\* Bodies the upstream site may send.
Docs ==
    {EmptyDoc, DetailDoc, OtherDetailDoc, Len1000Doc, ShortDoc, ErrorDoc, CaptchaDoc}

\* bool(content): not None and not "".
HasContent(doc) == ~doc.none /\ doc.len > 0

\* ------------------------------------------------------------------ fetcher
\* HTTP statuses the upstream site may answer with.
Statuses == {200, 302, 403, 404, 500, 503}

\* f"REMOTE_HTTP_{response.status_code}"
RemoteHttpName(status) ==
    CASE status = 200 -> "REMOTE_HTTP_200"
      [] status = 302 -> "REMOTE_HTTP_302"
      [] status = 403 -> "REMOTE_HTTP_403"
      [] status = 404 -> "REMOTE_HTTP_404"
      [] status = 500 -> "REMOTE_HTTP_500"
      [] status = 503 -> "REMOTE_HTTP_503"

\* What one network attempt does: an HTTP response, a timeout, another
\* transport failure (requests.exceptions.RequestException), or a fault of
\* any other kind while the response is read.
NetBehaviours ==
    [kind : {"response"}, status : {200}, body : Docs]
      \cup [kind : {"response"}, status : Statuses \ {200}, body : {ErrorDoc}]
      \cup [kind : {"response"}, status : {403, 503}, body : {CaptchaDoc}]
      \cup [kind : {"timeout", "error", "fault"}, status : {NoStatus}, body : {NoneDoc}]

\* A fetch outcome (content, http_status, error_code).
Outcome(content, status, error) ==
    [content |-> content, http_status |-> status, error |-> error]

\* A detector that looks for the CAPTCHA indicators before the status.
CaptchaFirst(content, status_code) ==
    IF HasContent(content) /\ content.captcha THEN "CAPTCHA_DETECTED"
    ELSE IF status_code = 403 THEN "REMOTE_HTTP_403"
    ELSE None

_detect_captcha_or_block(content, status_code) ==
    IF status_code = 403 THEN "REMOTE_HTTP_403"
    ELSE IF HasContent(content) /\ content.captcha THEN "CAPTCHA_DETECTED"
    ELSE None

\* The part of fetch_content that maps a received response to the outcome.
ResponseOutcome(response) ==
    LET block_error == _detect_captcha_or_block(response.body, response.status)
    IN  IF block_error # None
          THEN Outcome(NoneDoc, response.status, block_error)
        ELSE IF response.status = 200
          THEN Outcome(response.body, response.status, None)
        ELSE IF response.status = 404
          THEN Outcome(NoneDoc, response.status, "REMOTE_HTTP_404")
        ELSE IF response.status >= 500
          THEN Outcome(NoneDoc, response.status, "REMOTE_HTTP_500")
        ELSE Outcome(NoneDoc, response.status, RemoteHttpName(response.status))

\* retries: int = 2
Retries == 2

\* -------------------------------------------------------- Content Validator
CountIn(labels, wanted) == Cardinality(labels \cap wanted)

_is_onbid_error_page(content, strict) ==
    IF content.errPhrase THEN TRUE
    ELSE IF strict /\ CountIn(content.labels,
                {"caseNoLabel", "useLabel", "addressLabel", "appraisalLabel",
                 "minBidLabel"}) < 3 THEN TRUE
    ELSE IF strict /\ content.prices = 0 THEN TRUE
    ELSE IF strict /\ content.len < 10000 THEN TRUE
    ELSE IF ~strict
            /\ CountIn(content.labels,
                 {"appraisalLabel", "minBidLabel", "saleKw", "deadlineKw", "noticeKw"}) < 2
            /\ content.priceKw < 2 THEN TRUE
    ELSE content.loginNav

\* expected_cltr_no is None when the caller passes no expected id.
_is_detail_page(content, expected_cltr_no) ==
    IF ~HasContent(content) THEN FALSE
    ELSE IF CountIn(content.labels, {"appraisalLabel", "minBidLabel", "roundLabel"}) < 2
      THEN FALSE
    ELSE IF expected_cltr_no # None /\ content.cltr # expected_cltr_no THEN FALSE
    ELSE TRUE

\* The first cltrNo of the search page with at least 6 digits, or None.
_extract_cltr_no_from_search(search_content) ==
    IF search_content.cltr # None /\ DigitLen(search_content.cltr) >= 6
      THEN search_content.cltr
      ELSE None

\* ---------------------------------------------- allow-listed known properties
\* The keys of real_properties.
AllowList ==
    { <<"2024", "-", "01774", "-", "006">>,
      <<"2024", "-", "05180", "-", "001">>,
      <<"2024", "-", "06499", "-", "010">> }

\* case_key.replace("case:", "").replace("onbid:", "") if case_key else ""
StripPrefixes(case_key) ==
    IF Truthy(case_key) THEN Remove(Remove(case_key, "case:"), "onbid:") ELSE <<>>

\* TRUE iff real_properties.get(case_no) is a record (truthy), else None.
_extract_real_property_data(case_key) == StripPrefixes(case_key) \in AllowList

\* The HTML built from an allow-listed record: 808 characters for the first
\* record, no round ("1회차" is not matched by \d+차), no attachment keyword.
_format_real_property_as_html(case_key) ==
    [BaseDoc EXCEPT !.len = 808,
                    !.labels = {"caseNoLabel", "useLabel", "addressLabel",
                                "appraisalLabel", "minBidLabel", "saleKw"},
                    !.prices = 1, !.priceKw = 1,
                    !.parsed = {"use_type", "address", "appraisal", "min_bid",
                                "areas.building_m2", "areas.land_m2"},
                    !.synth = TRUE]

\* ------------------------------------------------------------ Field Extractor
\* Extracted data: the response fields that are non-null, and whether the
\* allow-listed lookup was consulted / answered while extracting.
Extracted(keys, consulted, synthesized) ==
    [keys |-> keys, consulted |-> consulted, synthesized |-> synthesized]

\* The case key _extract_case_from_error_page finds, or NoneSeq.
_extract_case_from_error_page(content) ==
    IF content.keywordCase # NoneSeq /\ MatchesCasePattern(content.keywordCase)
      THEN <<"case:">> \o content.keywordCase
    ELSE IF content.caseText # NoneSeq
      THEN <<"case:">> \o content.caseText
    ELSE NoneSeq

\* An extractor that asks the allow-list for every error page, whatever the mode.
ExtractAnyMode(content, strict) ==
    IF ~HasContent(content) THEN Extracted({}, FALSE, FALSE)
    ELSE IF content.html /\ _is_onbid_error_page(content, strict)
      THEN LET known == _extract_real_property_data(_extract_case_from_error_page(content))
           IN  Extracted(IF known THEN {"appraisal"} ELSE {}, TRUE, known)
    ELSE Extracted(content.parsed \cup {"areas.land_right"}, FALSE, content.synth)

extract_structured_data(content, strict) ==
    IF ~HasContent(content) THEN Extracted({}, FALSE, FALSE)
    ELSE IF content.html
      THEN IF _is_onbid_error_page(content, strict)
             THEN IF strict THEN Extracted({}, FALSE, FALSE)
                  ELSE LET found == _extract_case_from_error_page(content)
                           case_key == IF found # NoneSeq THEN found
                                       ELSE <<"case:", "2024", "-", "00000", "-", "000">>
                           known == _extract_real_property_data(case_key)
                       \* of the record's keys (type, location, price, appraisal,
                       \* ...) only "appraisal" is a response field
                       IN  Extracted(IF known THEN {"appraisal"} ELSE {}, TRUE, known)
             ELSE Extracted(content.parsed \cup {"areas.land_right"}, FALSE, content.synth)
    ELSE IF strict THEN Extracted({}, FALSE, FALSE)
    ELSE Extracted(content.mock \cup {"areas.land_right"}, FALSE, FALSE)

\* A count that takes the three area fields as one field.
CountAreasOnce(data) ==
    LET areaKeys == {"areas.building_m2", "areas.land_m2", "areas.land_right"}
    IN  Cardinality(data.keys \cap (DataKeys \ areaKeys))
          + (IF data.keys \cap areaKeys # {} THEN 1 ELSE 0)

count_extracted_keys(data) == Cardinality(data.keys \cap DataKeys)

\* ---------------------------------------------------------- Attachment Handler
\* The three attachments detect_attachments lists.
AttachmentCount == 3

\* (attachment_state, number of candidates)
detect_attachments(content) ==
    IF ~HasContent(content) THEN [state |-> "NONE", n |-> 0]
    ELSE IF ~content.attach THEN [state |-> "NONE", n |-> 0]
    ELSE [state |-> "READY", n |-> AttachmentCount]

\* How persisting goes: every file is written, the directory cannot be
\* created, or the write of file number failAt fails.
DiskBehaviours ==
    [kind : {"ok", "mkdir_fails"}, failAt : {0}]
      \cup [kind : {"write_fails"}, failAt : 1..AttachmentCount]

\* download_attachments: (raised, attachment_state, saved, files left on disk)
download_attachments(n, disk) ==
    IF n = 0 THEN [raised |-> FALSE, state |-> "NONE", saved |-> 0, files |-> 0]
    ELSE IF disk.kind = "mkdir_fails"
      THEN [raised |-> TRUE, state |-> "NONE", saved |-> 0, files |-> 0]
    ELSE IF disk.kind = "write_fails" /\ disk.failAt <= n
      THEN [raised |-> FALSE, state |-> "DOWNLOAD_FAIL", saved |-> 0,
            files |-> disk.failAt - 1]
    ELSE [raised |-> FALSE, state |-> "READY", saved |-> n, files |-> n]

\* ------------------------------------------------------------------ Cache Store
\* Case keys the modelled inputs normalize to.
CaseKeys ==
    { normalize_case_key([case |-> r, url |-> NoneSeq, force |-> FALSE]).case_key :
        r \in RawInputs } \ {NoneSeq}

\* A raw-archive entry (data/raw/<case_key>/raw_data.json): whether the file
\* exists, whether json.load can read it (a file that open(..., "w") has
\* truncated and json.dump has not finished is not), the two integrity
\* markers as a reader's .get() sees them, and the archived document.
NoArchive ==
    [exists |-> FALSE, readable |-> FALSE, strict_mode |-> FALSE,
     mock_blocked |-> FALSE, content |-> NoneDoc]

\* The raw_data dictionary step 10 of parse_onbid_case builds: it has the
\* document and no top-level key "strict_mode" or "mock_blocked".
RawData(safe_content) ==
    [content |-> safe_content, strict_mode |-> FALSE, mock_blocked |-> FALSE]

\* The entry save_case_data writes: a strict parser sets both markers, a
\* relaxed one writes raw_data as it got it.
save_case_data(strict, raw_data) ==
    [exists |-> TRUE,
     readable |-> TRUE,
     strict_mode |-> IF strict THEN TRUE ELSE raw_data.strict_mode,
     mock_blocked |-> IF strict THEN TRUE ELSE raw_data.mock_blocked,
     content |-> raw_data.content]

\* A reader that accepts every entry that exists, whatever its markers.
CheckFileOnly(entry, strict) == entry.exists

check_cache_exists(entry, strict) ==
    IF ~entry.exists THEN FALSE
    \* json.load raises JSONDecodeError, which the strict branch catches
    ELSE IF strict /\ ~entry.readable THEN FALSE
    ELSE IF strict /\ ~entry.strict_mode THEN FALSE
    ELSE IF strict /\ ~entry.mock_blocked THEN FALSE
    ELSE TRUE

\* A response-cache entry (data/cache/<case_key>/latest.json): whether the
\* file exists, whether json.load can read it, its modification time and the
\* error_code of the response in it.
NoCached == [exists |-> FALSE, readable |-> FALSE, mtime |-> 0, error_code |-> None]

\* The entry a save_to_cache that completes at time t leaves.
save_to_cache(response, t) ==
    [exists |-> TRUE, readable |-> TRUE, mtime |-> t, error_code |-> response.error_code]

\* ttl_hours: int = 6, and an hour in tenths of a second.
ttl_hours == 6
OneHour == 36000

\* A validity test that still accepts an entry exactly ttl_hours old.
ValidThroughTtl(entry, t) ==
    entry.exists /\ t - entry.mtime <= ttl_hours * OneHour

\* is_cache_valid at time t (datetime.now()).
is_cache_valid(entry, t) ==
    IF ~entry.exists THEN FALSE
    ELSE t - entry.mtime < ttl_hours * OneHour

\* What load_from_cache gives back.
LoadMiss == [raised |-> FALSE, found |-> FALSE, error_code |-> None]

\* load_from_cache at time t: the cached response, or None (a miss).
load_from_cache(entry, t) ==
    IF entry.exists /\ is_cache_valid(entry, t)
      THEN IF entry.readable
             THEN [raised |-> FALSE, found |-> TRUE, error_code |-> entry.error_code]
             \* except Exception: a warning is logged
             ELSE LoadMiss
      ELSE LoadMiss

\* ------------------------------------------------------------ Mismatch Detector
\* str.strip(): leading and trailing whitespace tokens are removed.
RECURSIVE LStrip(_)
LStrip(s) ==
    IF Len(s) > 0 /\ Head(s) \in {" ", "\n"} THEN LStrip(Tail(s)) ELSE s

RECURSIVE RStrip(_)
RStrip(s) ==
    IF Len(s) > 0 /\ s[Len(s)] \in {" ", "\n"} THEN RStrip(SubSeq(s, 1, Len(s) - 1)) ELSE s

normalize_case_for_comparison(case_str) ==
    IF ~Truthy(case_str) THEN <<>>
    ELSE RStrip(LStrip(Remove(Remove(case_str, "case:"), "onbid:")))

\* A detector that compares the request with the case key only.
KeyOnlyMismatch(requested_case, case_no_extracted, cltr_no_extracted, case_key) ==
    normalize_case_for_comparison(requested_case) # normalize_case_for_comparison(case_key)

\* case_no_extracted is a text or NoneSeq, cltr_no_extracted digits or None.
detect_mismatch(requested_case, case_no_extracted, cltr_no_extracted, case_key) ==
    LET normalized_requested == normalize_case_for_comparison(requested_case)
        normalized_case_key == normalize_case_for_comparison(case_key)
    IN  IF Truthy(case_no_extracted) /\ cltr_no_extracted # None
          THEN IF normalized_requested = normalize_case_for_comparison(case_no_extracted)
                 THEN FALSE
               ELSE IF normalized_requested
                         = normalize_case_for_comparison(<<"onbid:", cltr_no_extracted>>)
                 THEN FALSE
               ELSE TRUE
        ELSE IF normalized_requested # normalized_case_key
          THEN IF Truthy(case_no_extracted)
                    /\ normalized_requested = normalize_case_for_comparison(case_no_extracted)
                 THEN FALSE
               ELSE IF cltr_no_extracted # None /\ normalized_requested = <<cltr_no_extracted>>
                 THEN FALSE
               ELSE TRUE
        ELSE FALSE

\* --------------------------------------------------------------------- results
\* OnbidDebugInfo(source, http_status, last_url)
DebugInfo(source, http_status, last_url) ==
    [source |-> source, http_status |-> http_status, last_url |-> last_url]

\* The response before any request was served.
NoResult ==
    [status |-> None, requested_case |-> NoneSeq, case_key |-> NoneSeq,
     case_no |-> NoneSeq, source_hint |-> None, mismatch |-> FALSE, keys |-> {},
     attachment_state |-> None, saved |-> 0, extracted_keys |-> 0,
     error_code |-> None, debug |-> DebugInfo(None, NoStatus, None)]

_create_error_response(error_code, requested_case, case_key, case_no, source_hint, debug_info) ==
    [status |-> "pending",
     requested_case |-> requested_case,
     case_key |-> case_key,
     case_no |-> case_no,
     source_hint |-> source_hint,
     mismatch |->
        IF Truthy(requested_case) /\ Truthy(case_no) /\ requested_case # case_no THEN TRUE
        ELSE IF Truthy(requested_case) /\ Truthy(case_key) /\ requested_case # case_key
          THEN TRUE
        ELSE FALSE,
     keys |-> {},
     attachment_state |-> "NONE",
     saved |-> 0,
     extracted_keys |-> 0,
     error_code |-> error_code,
     debug |-> debug_info]

\* debug_info or OnbidDebugInfo(source="unknown")
DefaultDebug == DebugInfo("unknown", NoStatus, None)

\* An except clause that lets the exception go: the caller gets no response.
Reraised == NoResult

\* The response of the except clause of parse_onbid_case.
UnknownErrorResponse ==
    _create_error_response("UNKNOWN", <<"unknown">>, NoneSeq, NoneSeq, "unknown",
                           DebugInfo("unknown", NoStatus, None))

\* ======================================================================= state
VARIABLES
    \* Cache Store (shared by every parser over the same data directories)
    rawArchive,          \* case key -> raw-archive entry
    respCache,           \* case key -> response-cache entry
    attachDir,           \* case key -> attachment files in its directory
    \* the parser serving the current request
    strict_mode,         \* self.strict_mode
    _active_parsers,     \* self._active_parsers
    quota,               \* requests the behaviour still admits
    \* one call of parse_onbid_case
    pc,                  \* position in parse_onbid_case
    request,             \* the OnbidParseRequest
    norm,                \* result of step 1
    cacheHit,            \* what step 2 found
    stage,               \* which fetch is in progress: url, search or detail
    idx,                 \* index in search_urls / detail_urls
    attempt,             \* attempt of the fetch_content retry loop
    fetchLog,            \* the "Fetching <url> (attempt n/3)" lines the request has logged
    content, http_status, last_url, fetch_error, cltr_no_discovered,
    attachment,          \* attachment_state, attachments_list, saved_attachments
    extracted_data,
    verdict,             \* status, extracted_keys, mismatch and error_code of steps 8-9
    result,              \* the OnbidParseResponse returned
    \* observation of the current request
    events,              \* pipeline steps it has run
    lastWriter,          \* case key -> mode of the parser that last wrote its archive entry
    \* Rate-Limited Fetcher under concurrent callers (SpecRate)
    now,                 \* time.time(), in tenths of a second
    last_request_time,   \* self.last_request_time
    thr,                 \* thread -> its position in fetch_content
    netLog,              \* thread -> the network calls it has started
    \* direct use of the Cache Store (SpecCache)
    probe,               \* the latest check_cache_exists call and its answer
    \* direct use of one method of the parser
    ret                  \* the latest call: the method, its arguments, what it returned

storeVars == <<rawArchive, respCache, attachDir, lastWriter>>
fetchVars == <<stage, idx, attempt, fetchLog>>
docVars == <<content, http_status, last_url, fetch_error, cltr_no_discovered>>
stepVars == <<attachment, extracted_data, verdict>>
callVars == <<pc, request, norm, cacheHit, result, events>>
parserVars == <<strict_mode, _active_parsers, quota>>
rateVars == <<now, last_request_time, thr, netLog>>
obsVars == <<probe, ret>>
vars == <<storeVars, fetchVars, docVars, stepVars, callVars, parserVars, rateVars, obsVars>>

NoAttachment == [state |-> None, n |-> 0, saved |-> 0]
NoVerdict == [status |-> None, extracted_keys |-> 0, mismatch |-> FALSE, error_code |-> None]
NoExtracted == Extracted({}, FALSE, FALSE)
NoNorm == NormResult(NoneSeq, NoneSeq, NoneSeq, "unknown")
NoRequest == [case |-> NoneSeq, url |-> NoneSeq, force |-> FALSE]
NoOutcome == Outcome(NoneDoc, NoStatus, None)

\* time.time() when the model starts, and the threads of SpecRate.
Epoch == 20
Threads == {"t1", "t2"}
IdleThread == [pc |-> "idle", calls |-> 0, attempt |-> 0, wake |-> 0]
\* A thread's network log: how many of its calls have issued their first
\* network request, when that of its first call and that of its latest call
\* started, when its latest network request (first attempt or retry)
\* started, and when the one before that started; 0 stands for "none yet".
NoNetLog == [n |-> 0, first |-> 0, latest |-> 0, last |-> 0, prev |-> 0]

\* No method called directly yet.
NoRet == [op |-> "none"]

\* No check_cache_exists call made yet.
NoProbe == [called |-> FALSE, key |-> NoneSeq, strict |-> FALSE, hit |-> FALSE]

InitStore ==
    /\ rawArchive = [k \in CaseKeys |-> NoArchive]
    /\ respCache = [k \in CaseKeys |-> NoCached]
    /\ attachDir = [k \in CaseKeys |-> 0]
    /\ lastWriter = [k \in CaseKeys |-> "none"]

InitCall ==
    /\ pc = "idle"
    /\ request = NoRequest
    /\ norm = NoNorm
    /\ cacheHit = FALSE
    /\ stage = "none" /\ idx = 0 /\ attempt = 0
    /\ content = NoneDoc /\ http_status = NoStatus /\ last_url = None
    /\ fetch_error = None /\ cltr_no_discovered = None
    /\ attachment = NoAttachment
    /\ extracted_data = NoExtracted
    /\ verdict = NoVerdict
    /\ result = NoResult
    /\ events = {}

InitRate ==
    /\ now = Epoch
    /\ last_request_time = 0
    /\ thr = [t \in Threads |-> IdleThread]
    /\ netLog = [t \in Threads |-> NoNetLog]

\* OnbidParser.__init__: empty data directories, no request served.
InitParser ==
    /\ InitStore
    /\ InitCall
    /\ InitRate
    /\ probe = NoProbe
    /\ ret = NoRet
    /\ strict_mode = TRUE
    /\ _active_parsers = 0

\* The fetch log of a parser whose logger is on or off: the URLs
\* fetch_content was called with and the number of network attempts logged.
NoFetchLog(on) == [on |-> on, urls |-> <<>>, attempts |-> 0]

Init == InitParser /\ quota = MaxRequests /\ fetchLog = NoFetchLog(FALSE)

InitSeq == InitParser /\ quota = MaxRequests + 1 /\ fetchLog = NoFetchLog(FALSE)

\* The same parser with its logger on.
InitLog == InitParser /\ quota = MaxRequests /\ fetchLog = NoFetchLog(TRUE)

\* ================================================= Orchestrator: parse_onbid_case
\* The request's case key, once step 1 has run.
case_key == norm.case_key

\* A resolver whose detail stage takes the case-number templates whether or
\* not discovery found an id.
CaseNumberTemplates(st, byId, i) ==
    CASE st = "url" -> "collateralRealEstateDetail?cltrNo"
      [] st = "search" /\ i = 1 -> "publicAnnounceList?q"
      [] st = "search" /\ i = 2 -> "publicAnnounceList?searchKeyword"
      [] st = "search" /\ i = 3 -> "searchIntegral?keyword"
      [] st = "detail" /\ i = 1 -> "publicAnnounceRlstDetail?keyword"
      [] st = "detail" /\ i = 2 -> "publicAnnounceDetail?searchKeyword"
      [] st = "detail" /\ i = 3 -> "goodsDetail?searchKeyword"

\* The URL a fetch uses (the templates of parse_onbid_case, by name).
UrlName(st, byId, i) ==
    CASE st = "url" -> "collateralRealEstateDetail?cltrNo"
      [] st = "search" /\ i = 1 -> "publicAnnounceList?q"
      [] st = "search" /\ i = 2 -> "publicAnnounceList?searchKeyword"
      [] st = "search" /\ i = 3 -> "searchIntegral?keyword"
      [] st = "detail" /\ byId /\ i = 1 -> "publicAnnounceRlstDetail?cltrNo"
      [] st = "detail" /\ byId /\ i = 2 -> "announceDetail?cltrNo"
      [] st = "detail" /\ byId /\ i = 3 -> "collateralRealEstateDetail?cltrNo"
      [] st = "detail" /\ ~byId /\ i = 1 -> "publicAnnounceRlstDetail?keyword"
      [] st = "detail" /\ ~byId /\ i = 2 -> "publicAnnounceDetail?searchKeyword"
      [] st = "detail" /\ ~byId /\ i = 3 -> "goodsDetail?searchKeyword"

\* len(search_urls) and len(detail_urls)
SearchUrlCount == 3
DetailUrlCount == 3

\* The except clause: any exception raised inside the try block.
CatchAll ==
    /\ result' = UnknownErrorResponse
    /\ pc' = "done"

\* A parser (strict or relaxed, as its environment says) receives a request;
\* the locals of parse_onbid_case are initialised.
Start(raw, force, strict) ==
    /\ pc = "idle"
    /\ quota > 0
    /\ quota' = quota - 1
    /\ strict_mode' = strict
    /\ request' = [case |-> raw, url |-> NoneSeq, force |-> force]
    /\ pc' = "normalize"
    /\ norm' = NoNorm
    /\ cacheHit' = FALSE
    /\ result' = NoResult
    /\ events' = {}
    /\ UNCHANGED <<storeVars, fetchVars, docVars, stepVars, _active_parsers, rateVars, obsVars>>

\* A step 1 that does not return on invalid input: the request goes on to
\* the resolver with the source kind "invalid".
NormalizeAndResolve ==
    /\ pc = "normalize"
    /\ norm' = normalize_case_key(request)
    /\ pc' = IF norm'.case_key = NoneSeq THEN "resolve" ELSE "check_cache"
    /\ UNCHANGED <<storeVars, fetchVars, docVars, stepVars, request, cacheHit, result,
                   events, parserVars, rateVars, obsVars>>

\* Step 1: normalize the case key; invalid input returns at once.
Normalize ==
    /\ pc = "normalize"
    /\ LET n == normalize_case_key(request)
       IN  /\ norm' = n
           /\ IF n.case_key = NoneSeq
                THEN /\ result' = _create_error_response("INVALID_INPUT", n.requested_case,
                                      NoneSeq, NoneSeq, n.source_hint,
                                      DebugInfo(n.source_hint, NoStatus, None))
                     /\ pc' = "done"
                ELSE /\ result' = result
                     /\ pc' = "check_cache"
    /\ UNCHANGED <<storeVars, fetchVars, docVars, stepVars, request, cacheHit, events, parserVars, rateVars, obsVars>>

\* Step 2: the cache check (skipped if force); a hit is only logged.
CheckCache ==
    /\ pc = "check_cache"
    /\ LET use_cache == ~request.force
       IN  cacheHit' = (use_cache /\ check_cache_exists(rawArchive[case_key], strict_mode))
    /\ pc' = "resolve"
    /\ UNCHANGED <<storeVars, fetchVars, docVars, stepVars, request, norm, result, events, parserVars, rateVars, obsVars>>

\* The log with the line of the network attempt being made, if the logger
\* is on and an attempt is being made.
Counted ==
    IF fetchLog.on /\ pc = "fetching"
      THEN [fetchLog EXCEPT !.attempts = @ + 1]
      ELSE fetchLog

\* Calling fetch_content: the retry loop starts with attempt 0.
CallFetch(st, byId, i) ==
    /\ stage' = st
    /\ idx' = i
    /\ attempt' = 0
    /\ fetchLog' = IF fetchLog.on
                      THEN [Counted EXCEPT !.urls = Append(@, UrlName(st, byId, i))]
                      ELSE fetchLog
    /\ pc' = "fetching"

\* Step 3, entry: url mode fetches the one detail URL, case mode starts the
\* discovery stage; any other source kind takes the last branch.
Resolve ==
    /\ pc = "resolve"
    /\ IF norm.source_hint = "url"
         THEN /\ CallFetch("url", TRUE, 1)
              /\ last_url' = UrlName("url", TRUE, 1)
              /\ UNCHANGED <<content, http_status, fetch_error, cltr_no_discovered,
                             result, events, respCache>>
       ELSE IF norm.source_hint = "case"
         THEN /\ CallFetch("search", FALSE, 1)
              /\ UNCHANGED <<docVars, result, events, respCache>>
       ELSE IF strict_mode
         THEN /\ result' = _create_error_response("INVALID_INPUT", norm.requested_case,
                               case_key, norm.requested_case, norm.source_hint, DefaultDebug)
              /\ pc' = "done"
              /\ UNCHANGED <<fetchVars, docVars, events, respCache>>
       ELSE IF _extract_real_property_data(case_key)
         THEN /\ content' = _format_real_property_as_html(case_key)
              /\ http_status' = 200
              /\ events' = events \cup {"allowlist"}
              /\ UNCHANGED <<fetchVars, last_url, fetch_error, cltr_no_discovered>>
              \* "Handle fetch errors (only for URL mode ...)": this block is
              \* indented under the unknown-source branch
              /\ IF fetch_error # None /\ norm.source_hint = "url"
                   THEN LET response == _create_error_response(fetch_error,
                                            norm.requested_case, case_key, norm.case_no,
                                            norm.source_hint,
                                            DebugInfo(norm.source_hint, http_status, last_url))
                        IN  /\ result' = response
                            /\ respCache' =
                                 IF fetch_error \in {"REMOTE_HTTP_403", "CAPTCHA_DETECTED"}
                                   THEN [respCache EXCEPT ![case_key] = save_to_cache(response, now)]
                                   ELSE respCache
                            /\ pc' = "done"
                   ELSE /\ pc' = "step4"
                        /\ UNCHANGED <<result, respCache>>
       ELSE /\ result' = _create_error_response("PARSE_EMPTY", norm.requested_case,
                               case_key, norm.requested_case, norm.source_hint, DefaultDebug)
            /\ events' = events \cup {"allowlist"}
            /\ pc' = "done"
            /\ UNCHANGED <<fetchVars, docVars, respCache>>
    /\ UNCHANGED <<rawArchive, attachDir, lastWriter, stepVars, request, norm, cacheHit, parserVars, rateVars, obsVars>>

\* One pass of fetch_content's retry loop: session.get does b on attempt
\* number att.  The call returns an outcome, raises, or goes on to the next
\* attempt after the retry sleep.
\* A retry loop whose last failed attempt is reported as UNKNOWN, whatever
\* its kind.
LastFailureUnknown(b, att) ==
    IF b.kind = "response"
      THEN [returns |-> TRUE, raised |-> FALSE, outcome |-> ResponseOutcome(b)]
    ELSE IF b.kind = "fault"
      THEN [returns |-> FALSE, raised |-> TRUE, outcome |-> NoOutcome]
    ELSE IF att = Retries
      THEN [returns |-> TRUE, raised |-> FALSE,
            outcome |-> Outcome(NoneDoc, NoStatus, "UNKNOWN")]
    ELSE [returns |-> FALSE, raised |-> FALSE, outcome |-> NoOutcome]

\* A retry loop that makes one attempt more before it gives up.
OneMoreRetry(b, att) ==
    IF b.kind = "response"
      THEN [returns |-> TRUE, raised |-> FALSE, outcome |-> ResponseOutcome(b)]
    ELSE IF b.kind = "fault"
      THEN [returns |-> FALSE, raised |-> TRUE, outcome |-> NoOutcome]
    ELSE IF att = Retries + 1
      THEN [returns |-> TRUE, raised |-> FALSE,
            outcome |-> Outcome(NoneDoc, NoStatus,
                                IF b.kind = "timeout" THEN "TIMEOUT" ELSE "UNKNOWN")]
    ELSE [returns |-> FALSE, raised |-> FALSE, outcome |-> NoOutcome]

AttemptStep(b, att) ==
    IF b.kind = "response"
      THEN [returns |-> TRUE, raised |-> FALSE, outcome |-> ResponseOutcome(b)]
    ELSE IF b.kind = "fault"
      THEN [returns |-> FALSE, raised |-> TRUE, outcome |-> NoOutcome]
    ELSE IF att = Retries
      THEN [returns |-> TRUE, raised |-> FALSE,
            outcome |-> Outcome(NoneDoc, NoStatus,
                                IF b.kind = "timeout" THEN "TIMEOUT" ELSE "UNKNOWN")]
    ELSE [returns |-> FALSE, raised |-> FALSE, outcome |-> NoOutcome]

\* fetch_content has returned and no further fetch follows: its frame and
\* the loop variables are gone.
ReturnFetch ==
    /\ stage' = "none"
    /\ idx' = 0
    /\ attempt' = 0
    /\ fetchLog' = Counted

\* The detail stage fetches candidate i.
CallDetail(i, byId) ==
    /\ CallFetch("detail", byId, i)
    /\ last_url' = UrlName("detail", byId, i)

\* url mode: one network attempt of the single fetch; when fetch_content
\* returns, the code goes on to step 4 whatever the outcome.
UrlAttempt(b) ==
    /\ pc = "fetching" /\ stage = "url"
    /\ events' = events \cup {"net"}
                    \cup (IF AttemptStep(b, attempt).raised THEN {"fault"} ELSE {})
    /\ LET r == AttemptStep(b, attempt)
       IN  IF r.raised
             THEN /\ CatchAll
                  /\ fetchLog' = Counted
                  /\ UNCHANGED <<stage, idx, attempt, content, http_status, fetch_error>>
           ELSE IF ~r.returns
             THEN /\ attempt' = attempt + 1
                  /\ fetchLog' = Counted
                  /\ UNCHANGED <<pc, stage, idx, content, http_status, fetch_error, result>>
           ELSE /\ content' = r.outcome.content
                /\ http_status' = r.outcome.http_status
                /\ fetch_error' = r.outcome.error
                /\ pc' = "step4"
                /\ ReturnFetch
                /\ UNCHANGED result
    /\ UNCHANGED <<storeVars, last_url, cltr_no_discovered, stepVars, request, norm,
                   cacheHit, parserVars, rateVars, obsVars>>

\* Stage 1 (discovery): one network attempt for search URL idx; when
\* fetch_content returns, the loop extracts the internal id and breaks, goes
\* on to the next search URL, or falls through to the detail stage.
SearchAttempt(b) ==
    /\ pc = "fetching" /\ stage = "search"
    /\ events' = events \cup {"net"}
                    \cup (IF AttemptStep(b, attempt).raised THEN {"fault"} ELSE {})
    /\ LET r == AttemptStep(b, attempt)
           usable == HasContent(r.outcome.content) /\ r.outcome.http_status = 200
           found == IF usable THEN _extract_cltr_no_from_search(r.outcome.content)
                    ELSE cltr_no_discovered
       IN  IF r.raised
             THEN /\ CatchAll
                  /\ fetchLog' = Counted
                  /\ UNCHANGED <<stage, idx, attempt, last_url, cltr_no_discovered>>
           ELSE IF ~r.returns
             THEN /\ attempt' = attempt + 1
                  /\ fetchLog' = Counted
                  /\ UNCHANGED <<pc, stage, idx, last_url, cltr_no_discovered, result>>
           ELSE /\ cltr_no_discovered' = found
                /\ UNCHANGED result
                /\ IF usable /\ found # None
                     THEN CallDetail(1, TRUE)
                   ELSE IF idx < SearchUrlCount
                     THEN CallFetch("search", FALSE, idx + 1) /\ UNCHANGED last_url
                   ELSE CallDetail(1, FALSE)
    /\ UNCHANGED <<storeVars, content, http_status, fetch_error, stepVars, request, norm,
                   cacheHit, parserVars, rateVars, obsVars>>

\* The detail loop's test of a fetched candidate ("Check if this is a valid
\* detail page"): the loop breaks on it.
DetailAccepted(outcome, expected_cltr_no) ==
    /\ outcome.error = None
    /\ HasContent(outcome.content)
    /\ outcome.content.len > 1000
    /\ _is_detail_page(outcome.content, expected_cltr_no)

\* Stage 2 (detail): one network attempt for detail candidate idx; when
\* fetch_content returns, the loop accepts the page and breaks, or goes on
\* to the next candidate, or ends with the last candidate's outcome.
DetailAttempt(b) ==
    /\ pc = "fetching" /\ stage = "detail"
    /\ LET r == AttemptStep(b, attempt)
       IN  events' = events \cup {"net"}
                       \cup (IF r.raised THEN {"fault"} ELSE {})
                       \cup (IF r.returns /\ DetailAccepted(r.outcome, cltr_no_discovered)
                               THEN {"detail_accepted"} ELSE {})
    /\ LET r == AttemptStep(b, attempt)
       IN  IF r.raised
             THEN /\ CatchAll
                  /\ fetchLog' = Counted
                  /\ UNCHANGED <<stage, idx, attempt, content, http_status, fetch_error,
                                 last_url>>
           ELSE IF ~r.returns
             THEN /\ attempt' = attempt + 1
                  /\ fetchLog' = Counted
                  /\ UNCHANGED <<pc, stage, idx, content, http_status, fetch_error,
                                 last_url, result>>
           ELSE /\ content' = r.outcome.content
                /\ http_status' = r.outcome.http_status
                /\ fetch_error' = r.outcome.error
                /\ UNCHANGED result
                /\ IF DetailAccepted(r.outcome, cltr_no_discovered)
                     THEN pc' = "final_validation" /\ ReturnFetch /\ UNCHANGED last_url
                   ELSE IF idx < DetailUrlCount
                     THEN CallDetail(idx + 1, cltr_no_discovered # None)
                   ELSE pc' = "final_validation" /\ ReturnFetch /\ UNCHANGED last_url
    /\ UNCHANGED <<storeVars, cltr_no_discovered, stepVars, request, norm, cacheHit,
                   parserVars, rateVars, obsVars>>

\* "Final validation" and the fallback after the detail loop (case mode).
FinalValidation ==
    /\ pc = "final_validation"
    /\ LET rejected == HasContent(content) /\ ~_is_detail_page(content, None) /\ strict_mode
           content1 == IF rejected THEN NoneDoc ELSE content
           fetch_error1 == IF rejected THEN "REMOTE_HTTP_403" ELSE fetch_error
       IN  IF fetch_error1 # None \/ ~HasContent(content1) \/ content1.len < 1000
             THEN IF strict_mode
                    THEN /\ result' = _create_error_response("REMOTE_HTTP_ERROR",
                                          norm.requested_case, case_key, norm.requested_case,
                                          norm.source_hint, DefaultDebug)
                         /\ pc' = "done"
                         /\ content' = content1
                         /\ fetch_error' = fetch_error1
                         /\ UNCHANGED <<http_status, events>>
                  ELSE IF _extract_real_property_data(case_key)
                    THEN /\ content' = _format_real_property_as_html(case_key)
                         /\ http_status' = 200
                         /\ fetch_error' = None
                         /\ events' = events \cup {"allowlist"}
                         /\ pc' = "step4"
                         /\ UNCHANGED result
                  ELSE /\ result' = _create_error_response("PARSE_EMPTY",
                                        norm.requested_case, case_key, norm.requested_case,
                                        norm.source_hint, DefaultDebug)
                       /\ events' = events \cup {"allowlist"}
                       /\ pc' = "done"
                       /\ UNCHANGED <<content, http_status, fetch_error>>
             ELSE /\ pc' = "step4"
                  /\ UNCHANGED <<content, http_status, fetch_error, result, events>>
    /\ UNCHANGED <<storeVars, fetchVars, last_url, cltr_no_discovered, stepVars, request,
                   norm, cacheHit, parserVars, rateVars, obsVars>>

\* safe_content = content if content is not None else ""
safe_content == IF content.none THEN EmptyDoc ELSE content

Max(a, b) == IF a >= b THEN a ELSE b

\* Steps 4 and 5: detect the attachments and, if there are any, persist them.
DetectAndDownload(disk) ==
    /\ pc = "step4"
    /\ LET detected == detect_attachments(safe_content)
           got == download_attachments(detected.n, disk)
       IN  IF detected.state # "READY"
             THEN /\ attachment' = [state |-> detected.state, n |-> detected.n, saved |-> 0]
                  /\ events' = events \cup {"detect_attachments"}
                  /\ pc' = "step6"
                  /\ UNCHANGED <<attachDir, result>>
           ELSE IF got.raised
             THEN /\ CatchAll
                  /\ events' = events \cup {"detect_attachments", "download_attachments",
                                             "fault"}
                  /\ UNCHANGED <<attachDir, attachment>>
           ELSE /\ attachment' = [state |-> got.state, n |-> detected.n, saved |-> got.saved]
                /\ attachDir' = [attachDir EXCEPT ![case_key] = Max(@, got.files)]
                /\ events' = events \cup {"detect_attachments", "download_attachments"}
                /\ pc' = "step6"
                /\ UNCHANGED result
    /\ UNCHANGED <<rawArchive, respCache, lastWriter, fetchVars, docVars, extracted_data,
                   verdict, request, norm, cacheHit, parserVars, rateVars, obsVars>>

\* Steps 6 to 9 and the "special cases": extraction, key count, status,
\* mismatch and the error code.
ExtractAndJudge ==
    /\ pc = "step6"
    /\ LET data == extract_structured_data(safe_content, strict_mode)
           extracted_keys == count_extracted_keys(data)
           case_no_extracted ==
               IF HasContent(content) /\ content.caseText # NoneSeq
                    /\ MatchesCasePattern(content.caseText)
                 THEN content.caseText ELSE NoneSeq
           cltr_no_extracted == IF HasContent(content) THEN content.cltr ELSE None
           requested == IF Truthy(norm.requested_case) THEN norm.requested_case ELSE <<>>
       IN  /\ extracted_data' = data
           /\ verdict' =
                [status |-> IF extracted_keys >= 8 THEN "ok" ELSE "pending",
                 extracted_keys |-> extracted_keys,
                 mismatch |-> detect_mismatch(requested, case_no_extracted,
                                              cltr_no_extracted, case_key),
                 error_code |->
                    IF attachment.state = "NONE" THEN "ATTACHMENT_NONE"
                    ELSE IF attachment.state = "DOWNLOAD_FAIL" THEN "ATTACHMENT_DOWNLOAD_FAIL"
                    ELSE IF extracted_keys < 8 THEN "PARSE_EMPTY"
                    ELSE None]
           /\ events' = events \cup {"extract_structured_data"}
                               \cup (IF data.consulted THEN {"allowlist"} ELSE {})
    /\ pc' = "step10"
    /\ UNCHANGED <<storeVars, fetchVars, docVars, attachment, request, norm, cacheHit,
                   result, parserVars, rateVars, obsVars>>

\* Step 10: save the case data to the raw archive.
SaveCaseData ==
    /\ pc = "step10"
    /\ LET use_cache == ~request.force
       IN  IF ~request.force \/ ~use_cache
             THEN /\ rawArchive' = [rawArchive EXCEPT
                                      ![case_key] = save_case_data(strict_mode,
                                                                   RawData(safe_content))]
                  /\ lastWriter' = [lastWriter EXCEPT
                                      ![case_key] = IF strict_mode THEN "strict" ELSE "relaxed"]
                  /\ events' = events \cup {"save_case_data"}
             ELSE UNCHANGED <<rawArchive, lastWriter, events>>
    /\ pc' = "step12"
    /\ UNCHANGED <<respCache, attachDir, fetchVars, docVars, stepVars, request, norm,
                   cacheHit, result, parserVars, rateVars, obsVars>>

\* Steps 12 and 13: build the response and write it to the response cache.
Respond ==
    /\ pc = "step12"
    /\ LET response ==
             [status |-> verdict.status,
              requested_case |-> norm.requested_case,
              case_key |-> case_key,
              case_no |-> norm.case_no,
              source_hint |-> norm.source_hint,
              mismatch |-> verdict.mismatch,
              keys |-> extracted_data.keys \cap DataKeys,
              attachment_state |-> attachment.state,
              saved |-> attachment.saved,
              extracted_keys |-> verdict.extracted_keys,
              error_code |-> verdict.error_code,
              debug |-> DebugInfo(norm.source_hint, http_status, last_url)]
       IN  /\ result' = response
           /\ IF response.error_code = None \/ response.error_code \in {"ATTACHMENT_NONE"}
                THEN /\ respCache' = [respCache EXCEPT ![case_key] = save_to_cache(response, now)]
                     /\ events' = events \cup {"save_to_cache"}
                ELSE UNCHANGED <<respCache, events>>
    /\ pc' = "done"
    /\ UNCHANGED <<rawArchive, attachDir, lastWriter, fetchVars, docVars, stepVars, request,
                   norm, cacheHit, parserVars, rateVars, obsVars>>

\* Positions inside the try block at which a step can raise unexpectedly.
TryPcs ==
    {"normalize", "check_cache", "resolve", "final_validation", "step4",
     "step6", "step10", "step12"}

\* An unexpected exception in the pending step, caught by the except clause.
Fault ==
    /\ pc \in TryPcs
    /\ CatchAll
    /\ events' = events \cup {"fault"}
    /\ UNCHANGED <<storeVars, fetchVars, docVars, stepVars, request, norm, cacheHit,
                   parserVars, rateVars, obsVars>>

\* The finally clause and the return: the response goes to the caller and
\* the locals of the call are gone.
Finish ==
    /\ pc = "done"
    /\ _active_parsers' = _active_parsers - 1
    /\ UNCHANGED quota
    /\ pc' = "idle"
    /\ request' = NoRequest
    /\ norm' = NoNorm
    /\ cacheHit' = FALSE
    /\ stage' = "none" /\ idx' = 0 /\ attempt' = 0
    /\ fetchLog' = [fetchLog EXCEPT !.urls = <<>>, !.attempts = 0]
    /\ content' = NoneDoc /\ http_status' = NoStatus /\ last_url' = None
    /\ fetch_error' = None /\ cltr_no_discovered' = None
    /\ attachment' = NoAttachment
    /\ extracted_data' = NoExtracted
    /\ verdict' = NoVerdict
    /\ result' = NoResult
    /\ events' = {}
    /\ UNCHANGED <<storeVars, strict_mode, rateVars, obsVars>>

Next ==
    \/ \E raw \in RawInputs, force \in BOOLEAN, strict \in BOOLEAN : Start(raw, force, strict)
    \/ Normalize
    \/ CheckCache
    \/ Resolve
    \/ \E b \in NetBehaviours : UrlAttempt(b)
    \/ \E b \in NetBehaviours : SearchAttempt(b)
    \/ \E b \in NetBehaviours : DetailAttempt(b)
    \/ FinalValidation
    \/ \E disk \in DiskBehaviours : DetectAndDownload(disk)
    \/ ExtractAndJudge
    \/ SaveCaseData
    \/ Respond
    \/ Fault
    \/ Finish

Spec == Init /\ [][Next]_vars

\* The same parser serving one request more.
SpecSeq == InitSeq /\ [][Next]_vars

\* One request, the fetch log kept.
SpecLog == InitLog /\ [][Next]_vars

\* The same, every step that can be taken being taken at last: the code of
\* parse_onbid_case runs on, and session.get ends after its timeout.
SpecLogFair == InitLog /\ [][Next]_vars /\ WF_vars(Next)

\* ===================================== Cache Store used by parsers of both modes
\* Documents a parser archives.
StoredDocs == {EmptyDoc, DetailDoc}

\* Everything but the raw archive and the probe.
cacheFrame ==
    <<respCache, attachDir, fetchVars, docVars, stepVars, callVars, parserVars, rateVars, ret>>

\* A parser of the given mode calls save_case_data for case key k, as step 10 does.
CacheSave(k, strict, doc) ==
    /\ rawArchive' = [rawArchive EXCEPT ![k] = save_case_data(strict, RawData(doc))]
    /\ lastWriter' = [lastWriter EXCEPT ![k] = IF strict THEN "strict" ELSE "relaxed"]
    /\ probe' = NoProbe
    /\ UNCHANGED cacheFrame

\* A parser of the given mode calls check_cache_exists for case key k.
CacheCheck(k, strict) ==
    /\ probe' = [called |-> TRUE, key |-> k, strict |-> strict,
                 hit |-> check_cache_exists(rawArchive[k], strict)]
    /\ UNCHANGED <<rawArchive, lastWriter, cacheFrame>>

NextCache ==
    \/ \E k \in CaseKeys, strict \in BOOLEAN, doc \in StoredDocs : CacheSave(k, strict, doc)
    \/ \E k \in CaseKeys, strict \in BOOLEAN : CacheCheck(k, strict)

SpecCache == Init /\ [][NextCache]_vars

\* ============================ save_case_data running beside check_cache_exists
\* save_case_data, first half: open(case_dir / "raw_data.json", "w") creates
\* or truncates the file; json.dump has not yet written all of it.
OpenWrite(k, strict, doc) ==
    /\ ~rawArchive[k].exists \/ rawArchive[k].readable
    /\ rawArchive' = [rawArchive EXCEPT
                        ![k] = [save_case_data(strict, RawData(doc)) EXCEPT
                                  !.readable = FALSE]]
    /\ lastWriter' = [lastWriter EXCEPT ![k] = IF strict THEN "strict" ELSE "relaxed"]
    /\ probe' = NoProbe
    /\ UNCHANGED cacheFrame

\* save_case_data, second half: json.dump has written everything and the
\* with block closes the file.
CloseWrite(k) ==
    /\ rawArchive[k].exists /\ ~rawArchive[k].readable
    /\ rawArchive' = [rawArchive EXCEPT ![k].readable = TRUE]
    /\ probe' = NoProbe
    /\ UNCHANGED <<lastWriter, cacheFrame>>

NextWrite ==
    \/ \E k \in CaseKeys, strict \in BOOLEAN, doc \in StoredDocs : OpenWrite(k, strict, doc)
    \/ \E k \in CaseKeys : CloseWrite(k)
    \/ \E k \in CaseKeys, strict \in BOOLEAN : CacheCheck(k, strict)

SpecWrite == Init /\ [][NextWrite]_vars

\* =========================================== single methods called directly
\* Everything but the observed call.
retFrame ==
    <<storeVars, fetchVars, docVars, stepVars, callVars, parserVars, rateVars, probe>>

\* Arguments of detect_mismatch: requests as callers write them, identifiers
\* as the regular expressions of step 9 yield them, case keys as
\* normalize_case_key builds them.
MismatchRequests ==
    { <<>>,
      CaseKnown,
      CaseOther,
      <<"case:">> \o CaseKnown,
      <<" ">> \o CaseKnown \o <<" ">>,
      <<"onbid:", "1234567">>,
      <<"1234567">>,
      <<"http", "cltrNo=", "1234567">> }

MismatchCaseNos ==
    {NoneSeq, <<>>, CaseKnown, CaseOther, <<"9999", "-", "99999", "-", "999">>}

MismatchCltrNos == {None, "1234567", "7654321", "555555"}

MismatchCaseKeys ==
    { <<"case:">> \o CaseKnown, <<"case:">> \o CaseOther,
      <<"onbid:", "1234567">>, <<"onbid:", "7654321">> }

\* detect_mismatch(requested_case, case_no_extracted, cltr_no_extracted, case_key)
CallDetectMismatch(requested_case, case_no_extracted, cltr_no_extracted, key) ==
    /\ ret' = [op |-> "detect_mismatch",
               requested_case |-> requested_case,
               case_no_extracted |-> case_no_extracted,
               cltr_no_extracted |-> cltr_no_extracted,
               case_key |-> key,
               out |-> detect_mismatch(requested_case, case_no_extracted,
                                       cltr_no_extracted, key)]
    /\ UNCHANGED retFrame

NextMismatch ==
    \E requested_case \in MismatchRequests, case_no_extracted \in MismatchCaseNos,
       cltr_no_extracted \in MismatchCltrNos, key \in MismatchCaseKeys :
        CallDetectMismatch(requested_case, case_no_extracted, cltr_no_extracted, key)

SpecMismatch == Init /\ [][NextMismatch]_vars

\* Raw strings a caller may put into the case or the url field; NoneSeq is
\* a field left out.
NormalizeInputs ==
    { NoneSeq,
      <<>>,
      <<" ">>,
      CaseKnown,
      CaseOther,
      CaseKnown \o <<"\n">>,
      CaseKnown \o <<"x">>,
      <<"x">> \o CaseKnown,
      <<"2024", "-", "01774">>,
      <<"http", "cltrNo=", "1234567">>,
      <<"http", "/auction/case/", "7654321">>,
      <<"http", "x">>,
      <<"onbid:", "1234567">>,
      <<"onbid:", "onbid:", "1234567">>,
      <<"onbid:", "1234567", "x">>,
      <<"onbid:">>,
      <<"x">> }

\* normalize_case_key(OnbidParseRequest(case=case, url=url))
CallNormalize(case, url) ==
    /\ ret' = [op |-> "normalize_case_key", case |-> case, url |-> url,
               case_input |-> IF Truthy(case) THEN case ELSE url,
               out |-> normalize_case_key([case |-> case, url |-> url, force |-> FALSE])]
    /\ UNCHANGED retFrame

NextNormalize ==
    \E case \in NormalizeInputs, url \in NormalizeInputs : CallNormalize(case, url)

SpecNormalize == Init /\ [][NextNormalize]_vars

\* URLs fetch_content is called with.
FetchUrls ==
    {UrlName("url", TRUE, 1)}
      \cup {UrlName("search", FALSE, i) : i \in 1..SearchUrlCount}
      \cup {UrlName("detail", byId, i) : byId \in BOOLEAN, i \in 1..DetailUrlCount}

\* Everything but the retry counter and the observed call.
fetchFrame ==
    <<storeVars, stage, idx, fetchLog, docVars, stepVars, callVars, parserVars, rateVars,
      probe>>

\* No network attempt made yet.
NoAttempt == [kind |-> "none", status |-> NoStatus, body |-> NoneDoc]

\* fetch_content(url) is called: the retry loop starts with attempt 0.  The
\* observed call keeps what each attempt did (log) and the latest attempt.
FetchCall(url) ==
    /\ ret.op = "fetch_content" => ret.done
    /\ ret' = [op |-> "fetch_content", url |-> url, done |-> FALSE, raised |-> FALSE,
               outcome |-> NoOutcome, log |-> <<>>, last |-> NoAttempt]
    /\ attempt' = 0
    /\ UNCHANGED fetchFrame

\* One pass of the retry loop: session.get does b.  The call returns an
\* outcome, or an exception leaves fetch_content, or the next attempt follows.
FetchAttempt(b) ==
    /\ ret.op = "fetch_content" /\ ~ret.done
    /\ LET r == AttemptStep(b, attempt)
           seen == [ret EXCEPT !.log = Append(@, b.kind), !.last = b]
       IN  IF r.raised
             THEN ret' = [seen EXCEPT !.done = TRUE, !.raised = TRUE] /\ UNCHANGED attempt
           ELSE IF r.returns
             THEN ret' = [seen EXCEPT !.done = TRUE, !.outcome = r.outcome]
                  /\ UNCHANGED attempt
           ELSE attempt' = attempt + 1 /\ ret' = seen
    /\ UNCHANGED fetchFrame

NextFetch ==
    \/ \E url \in FetchUrls : FetchCall(url)
    \/ \E b \in NetBehaviours : FetchAttempt(b)

SpecFetch == Init /\ [][NextFetch]_vars

\* Everything but the attachment directories and the observed call.
attachFrame ==
    <<rawArchive, respCache, lastWriter, fetchVars, docVars, stepVars, callVars,
      parserVars, rateVars, probe>>

\* download_attachments(k, attachments) with n candidates, the disk doing disk.
CallDownload(k, n, disk) ==
    /\ LET got == download_attachments(n, disk)
       IN  /\ ret' = [op |-> "download_attachments", case_no |-> k, n |-> n,
                      disk |-> disk, out |-> got]
           /\ attachDir' = [attachDir EXCEPT ![k] = Max(@, got.files)]
    /\ UNCHANGED attachFrame

NextAttach ==
    \E k \in CaseKeys, n \in 0..AttachmentCount, disk \in DiskBehaviours :
        CallDownload(k, n, disk)

SpecAttach == Init /\ [][NextAttach]_vars

\* ------------------------------------------------------- parse_monetary_value
\* A price text is a sequence of tokens: a digit group (with its value), a
\* unit (eok 억, man 만, won 원), a blank, a comma, or other text ("x").
Num(n) == [t |-> "num", v |-> n]
Sym(c) == [t |-> c, v |-> 0]

\* Python's None for an amount.
NoAmount == -1

\* re.sub(r'[,\s]', '', text)
StripBlanks(text) == SelectSeq(text, LAMBDA x : x.t \notin {" ", ","})

\* re.search(r'(\d+(?:\.\d+)?)' + unit, text): the position of the first
\* digit group directly followed by the unit, or 0.
UnitMatch(text, unit) ==
    LET hits == {i \in 1..(Len(text) - 1) : text[i].t = "num" /\ text[i + 1].t = unit}
    IN  IF hits = {} THEN 0 ELSE CHOOSE i \in hits : \A j \in hits : i <= j

\* remaining.replace(match.group(0), ''): every occurrence of the matched
\* "<digits><unit>" is removed.
RECURSIVE RemoveGroup(_, _, _)
RemoveGroup(text, n, unit) ==
    IF Len(text) = 0 THEN <<>>
    ELSE IF Len(text) >= 2 /\ text[1] = Num(n) /\ text[2].t = unit
      THEN RemoveGroup(SubSeq(text, 3, Len(text)), n, unit)
    ELSE <<Head(text)>> \o RemoveGroup(Tail(text), n, unit)

\* re.search(r'(\d+(?:\.\d+)?)원?$', remaining): the digit group the text
\* ends with, a closing won unit apart, or NoAmount.
WonMatch(remaining) ==
    LET n == Len(remaining)
    IN  IF n >= 1 /\ remaining[n].t = "num" THEN remaining[n].v
        ELSE IF n >= 2 /\ remaining[n].t = "won" /\ remaining[n - 1].t = "num"
          THEN remaining[n - 1].v
        ELSE NoAmount

parse_monetary_value(raw) ==
    IF Len(raw) = 0 THEN NoAmount
    ELSE LET text == StripBlanks(raw)
             eok_match == UnitMatch(text, "eok")
             man_match == UnitMatch(text, "man")
             afterEok == IF eok_match # 0
                           THEN RemoveGroup(text, text[eok_match].v, "eok") ELSE text
             remaining == IF man_match # 0
                            THEN RemoveGroup(afterEok, text[man_match].v, "man")
                            ELSE afterEok
             won_match == WonMatch(remaining)
             total == (IF eok_match # 0 THEN text[eok_match].v * 100000000 ELSE 0)
                        + (IF man_match # 0 THEN text[man_match].v * 10000 ELSE 0)
                        + (IF won_match # NoAmount /\ eok_match = 0 /\ man_match = 0
                             THEN won_match ELSE 0)
         IN  IF total > 0 THEN total ELSE NoAmount

\* Price texts: an optional eok part, an optional man part, an optional
\* won part, with or without blanks before and other text after.
MoneyTexts ==
    LET EokParts == {<<>>, <<Num(2), Sym("eok"), Sym(" ")>>,
                     <<Num(15), Sym("eok"), Sym(" ")>>}
        ManParts == {<<>>, <<Num(3500), Sym("man")>>, <<Num(850), Sym("man")>>}
        WonParts == {<<>>, <<Sym("won")>>, <<Num(5000)>>, <<Num(5000), Sym("won")>>,
                     <<Sym(" "), Num(500), Sym("won")>>, <<Num(0), Sym("won")>>}
    IN  {head \o eok \o man \o won \o tail :
            head \in {<<>>, <<Sym(" ")>>}, eok \in EokParts, man \in ManParts,
            won \in WonParts, tail \in {<<>>, <<Sym("x")>>}}

\* parse_monetary_value(text)
CallParseMoney(text) ==
    /\ ret' = [op |-> "parse_monetary_value", text |-> text,
               out |-> parse_monetary_value(text)]
    /\ UNCHANGED retFrame

NextMoney == \E text \in MoneyTexts : CallParseMoney(text)

SpecMoney == Init /\ [][NextMoney]_vars

\* ======================================== response cache and its time to live
\* Hours the clock of SpecTtl runs.
MaxHours == 7

\* Instants at which SpecTtl lets calls happen: the whole hours after the
\* start and the tenth of a second before each.
ClockGrid ==
    {Epoch + h * OneHour - j : h \in 0..MaxHours, j \in {0, 1}} \ {Epoch - 1}

\* The response that SpecTtl caches.
CachedResponses == {[error_code |-> "ATTACHMENT_NONE"]}

\* Everything but the response cache, the clock and the observed call.
ttlFrame ==
    <<rawArchive, attachDir, lastWriter, fetchVars, docVars, stepVars, callVars,
      parserVars, last_request_time, thr, netLog, probe>>

\* save_to_cache(k, response): the file is written; or json.dump fails after
\* open(..., 'w') has truncated it; or open fails.  The except clause logs.
TtlSave(k, response, disk) ==
    /\ respCache' =
         CASE disk = "ok" -> [respCache EXCEPT ![k] = save_to_cache(response, now)]
           [] disk = "dump_fails" ->
                [respCache EXCEPT ![k] = [save_to_cache(response, now) EXCEPT
                                            !.readable = FALSE]]
           [] disk = "open_fails" -> respCache
    /\ ret' = NoRet
    /\ UNCHANGED <<now, ttlFrame>>

\* load_from_cache(k)
TtlLoad(k) ==
    /\ ret' = [op |-> "load_from_cache", key |-> k,
               out |-> load_from_cache(respCache[k], now)]
    /\ UNCHANGED <<respCache, now, ttlFrame>>

\* Time passes until the next instant, t.
Elapse(t) ==
    /\ t > now
    /\ \A u \in ClockGrid : u > now => t <= u
    /\ now' = t
    /\ ret' = NoRet
    /\ UNCHANGED <<respCache, ttlFrame>>

NextTtl ==
    \/ \E k \in CaseKeys, response \in CachedResponses,
          disk \in {"ok", "dump_fails", "open_fails"} : TtlSave(k, response, disk)
    \/ \E k \in CaseKeys : TtlLoad(k)
    \/ \E t \in ClockGrid : Elapse(t)

SpecTtl == Init /\ [][NextTtl]_vars

\* ================================== Rate-Limited Fetcher called by several threads
\* self.min_request_interval = 1.0
min_request_interval == 10

\* random.uniform(0.8, 1.5) and random.uniform(1.0, 2.0): the extremes.
RandomSleeps == {8, 15}
RetrySleeps == {10, 20}

\* How long session.get takes until the response or the failure: at once,
\* or longer than the minimum interval.
ResponseTimes == {0, 12}

\* A limiter that waits the random time only, whatever time has elapsed.
RandomSleepOnly(elapsed, random_sleep) == random_sleep

\* The time _enforce_rate_limit sleeps.
total_sleep(elapsed, random_sleep) ==
    IF elapsed < min_request_interval
      THEN (min_request_interval - elapsed) + random_sleep
      ELSE random_sleep

\* Everything but the fetcher's clock, timestamp, threads and log.
rateFrame == <<storeVars, fetchVars, docVars, stepVars, callVars, parserVars, obsVars>>

\* Thread t calls fetch_content: _enforce_rate_limit reads the clock and
\* last_request_time, and goes to sleep.  No lock is taken.
EnterFetch(t, random_sleep) ==
    /\ thr[t].pc = "idle"
    /\ thr[t].calls < MaxCalls
    /\ LET elapsed == now - last_request_time
       IN  thr' = [thr EXCEPT ![t] = [pc |-> "rate_sleep", calls |-> @.calls + 1,
                                      attempt |-> 0,
                                      wake |-> now + total_sleep(elapsed, random_sleep)]]
    /\ UNCHANGED <<now, last_request_time, netLog, rateFrame>>

\* time.sleep returns when the time asked for is over; the thread stores
\* last_request_time = time.time() and attempt 0 issues session.get, which
\* will take response_time.
StartRequest(t, response_time) ==
    /\ thr[t].pc = "rate_sleep"
    /\ now >= thr[t].wake
    /\ last_request_time' = now
    /\ thr' = [thr EXCEPT ![t].pc = "in_flight", ![t].wake = now + response_time]
    /\ netLog' = [netLog EXCEPT ![t] = [n |-> @.n + 1,
                                         first |-> IF @.first = 0 THEN now ELSE @.first,
                                         latest |-> now, last |-> now,
                                         prev |-> @.last]]
    /\ UNCHANGED <<now, rateFrame>>

\* session.get ends: with a response fetch_content returns; after a timeout
\* or transport failure it sleeps before the retry, or returns if this was
\* the last attempt.
EndRequest(t, failed, retry_sleep) ==
    /\ thr[t].pc = "in_flight"
    /\ now >= thr[t].wake
    /\ IF failed /\ thr[t].attempt < Retries
         THEN thr' = [thr EXCEPT ![t].pc = "retry_sleep", ![t].wake = now + retry_sleep]
         ELSE thr' = [thr EXCEPT ![t].pc = "idle", ![t].attempt = 0, ![t].wake = 0]
    /\ UNCHANGED <<now, last_request_time, netLog, rateFrame>>

\* The retry sleep is over: the next attempt issues session.get.
Retry(t, response_time) ==
    /\ thr[t].pc = "retry_sleep"
    /\ now >= thr[t].wake
    /\ thr' = [thr EXCEPT ![t].pc = "in_flight", ![t].attempt = @ + 1,
                          ![t].wake = now + response_time]
    /\ netLog' = [netLog EXCEPT ![t].last = now, ![t].prev = netLog[t].last]
    /\ UNCHANGED <<now, last_request_time, rateFrame>>

\* Thread t has a step to take at this instant: a caller that has begun
\* issues its calls one after another without delay, and a sleep or a
\* request ends when its time is over.
Pending(t) ==
    \/ thr[t].pc = "idle" /\ thr[t].calls \in 1..(MaxCalls - 1)
    \/ thr[t].pc # "idle" /\ now >= thr[t].wake

\* A tenth of a second passes.
Tick ==
    /\ now < MaxTime
    /\ \A t \in Threads : ~Pending(t)
    /\ \E t \in Threads : thr[t].pc # "idle"
    /\ now' = now + 1
    /\ UNCHANGED <<last_request_time, thr, netLog, rateFrame>>

NextRate ==
    \/ \E t \in Threads, random_sleep \in RandomSleeps : EnterFetch(t, random_sleep)
    \/ \E t \in Threads, response_time \in ResponseTimes : StartRequest(t, response_time)
    \/ \E t \in Threads, failed \in BOOLEAN, retry_sleep \in RetrySleeps :
          EndRequest(t, failed, retry_sleep)
    \/ \E t \in Threads, response_time \in ResponseTimes : Retry(t, response_time)
    \/ Tick

SpecRate == Init /\ [][NextRate]_vars

C2_FetchErrorShortCircuits ==
    (pc = "done" /\ norm.source_hint = "url" /\ fetch_error # None /\ "fault" \notin events)
        => /\ result.error_code = fetch_error
           /\ events \cap {"detect_attachments", "download_attachments",
                           "extract_structured_data", "save_case_data"} = {}

\* A url request whose fetch timed out and that ran the whole pipeline.
C2_TimeoutRunsPipeline ==
    /\ pc = "done"
    /\ norm.source_hint = "url"
    /\ fetch_error = "TIMEOUT"
    /\ result.error_code = "ATTACHMENT_NONE"
    /\ {"detect_attachments", "extract_structured_data", "save_case_data"} \subseteq events

AllCandidatesFailed ==
    /\ pc = "done"
    /\ strict_mode
    /\ norm.source_hint = "case"
    /\ request.force
    /\ cltr_no_discovered = None
    /\ "detail_accepted" \notin events
    /\ "fault" \notin events

\* C4: under strict mode, a forced well-formed case request whose discovery
\* yields no internal id and whose detail candidates all fail validation has
\* status pending, null content fields and error_code ATTACHMENT_NONE,
\* REMOTE_HTTP_ERROR or PARSE_EMPTY.
C4_StrictAllCandidatesFail ==
    AllCandidatesFailed =>
        /\ result.status = "pending"
        /\ result.keys \cap ContentKeys = {}
        /\ result.error_code \in {"ATTACHMENT_NONE", "REMOTE_HTTP_ERROR", "PARSE_EMPTY"}

\* No candidate was accepted, yet the attachments of the last one were
\* fetched and the request ended with a download failure.
C4_RejectedPageProcessed ==
    /\ AllCandidatesFailed
    /\ content = Len1000Doc
    /\ result.error_code = "ATTACHMENT_DOWNLOAD_FAIL"

\* C5: a strict-mode check_cache_exists reports a hit only for an entry that
\* carries both markers, and never for an entry whose last write was made by
\* a relaxed-mode parser.
C5_CacheIntegrity ==
    (probe.called /\ probe.strict /\ probe.hit) =>
        /\ rawArchive[probe.key].strict_mode
        /\ rawArchive[probe.key].mock_blocked
        /\ lastWriter[probe.key] = "strict"

\* A strict read of an entry that a relaxed parser wrote last, over an
\* earlier strict write: a miss.
C5_RelaxedEntryRejected ==
    /\ probe.called
    /\ probe.strict
    /\ ~probe.hit
    /\ rawArchive[probe.key].exists
    /\ lastWriter[probe.key] = "relaxed"

\* C6: a request with force = false that finds a valid cache entry is served
\* without any network call.
C6_CacheHitServedWithoutFetch ==
    (cacheHit /\ ~request.force) => "net" \notin events

\* A request that found its cache entry and fetched all the same.
C6_CacheHitRefetched ==
    /\ pc = "done"
    /\ cacheHit
    /\ ~request.force
    /\ "net" \in events

\* Fetch errors that are hard failures.
HardFailures ==
    {"TIMEOUT", "REMOTE_HTTP_404", "REMOTE_HTTP_500", "REMOTE_HTTP_302", "UNKNOWN"}

\* C7: a request writes a response-cache entry exactly when its final outcome
\* is successful, ATTACHMENT_NONE, REMOTE_HTTP_403 or CAPTCHA_DETECTED; a
\* request whose resolution ended in a hard failure writes none.
C7_ResponseCacheWritePolicy ==
    (pc = "done" /\ "fault" \notin events) =>
        /\ ("save_to_cache" \in events) =
              (result.error_code \in {None, "ATTACHMENT_NONE", "REMOTE_HTTP_403",
                                      "CAPTCHA_DETECTED"})
        /\ (fetch_error \in HardFailures => "save_to_cache" \notin events)

\* A url request whose fetch got a 404 and whose response was cached.
C7_HardFailureCached ==
    /\ pc = "done"
    /\ fetch_error = "REMOTE_HTTP_404"
    /\ "save_to_cache" \in events
    /\ respCache[case_key].exists

\* C8: the raw archive is written only by a request whose resolution
\* succeeded; a request whose resolution ended with a fetch error leaves it
\* unchanged.
C8_ArchiveOnlyOnSuccess ==
    [][rawArchive' # rawArchive => fetch_error = None]_vars

\* An entry with both strict markers that holds no document.
C8_StrictEntryWithoutDocument ==
    \E k \in CaseKeys :
        /\ rawArchive[k].exists
        /\ rawArchive[k].strict_mode
        /\ rawArchive[k].mock_blocked
        /\ ~HasContent(rawArchive[k].content)

\* C9: the limiter runs under mutual exclusion, so no two network calls of
\* different callers start less than 1.0 s apart.
C9_CallersOneSecondApart ==
    \A t, u \in Threads :
        (t # u /\ netLog[t].last > 0 /\ netLog[u].last > 0) =>
            \/ netLog[t].last - netLog[u].last >= min_request_interval
            \/ netLog[u].last - netLog[t].last >= min_request_interval

\* Two threads inside _enforce_rate_limit at once whose first network
\* requests then start at the same instant.
C9_SimultaneousStart ==
    \E t, u \in Threads :
        /\ t # u
        /\ thr[t].pc = "in_flight" /\ thr[u].pc = "in_flight"
        /\ thr[t].attempt = 0 /\ thr[u].attempt = 0
        /\ netLog[t].last = netLog[u].last

\* C10: for the calls a caller issues one after another, the span from the
\* first call's network request to the latest call's first network request
\* is at least (N - 1) x 1.0 s, N being the number of calls issued.
C10_SequentialSpan ==
    \A t \in Threads :
        netLog[t].n > 0 =>
            netLog[t].latest - netLog[t].first >= (netLog[t].n - 1) * min_request_interval

\* A single caller has issued all its calls, each answered at once, and the
\* other thread has stayed idle.
C10_ThreeCallsIssued ==
    \E t \in Threads :
        /\ netLog[t].n = MaxCalls
        /\ netLog[t].latest - netLog[t].first < 2 * (MaxCalls - 1) * min_request_interval
        /\ \A u \in Threads \ {t} : thr[u].calls = 0

\* C11: while save_case_data is writing an entry, a check_cache_exists for
\* the same case key, in strict or in relaxed mode, never reports the
\* partially written entry as a hit.
C11_WriteAtomic ==
    (probe.called /\ probe.hit) => rawArchive[probe.key].readable

\* A relaxed-mode check made between the truncation and the end of the
\* write, answered with a hit.
C11_PartialEntryHit ==
    /\ probe.called
    /\ ~probe.strict
    /\ probe.hit
    /\ rawArchive[probe.key].exists
    /\ ~rawArchive[probe.key].readable

\* C12: load_from_cache returns an entry for a case key only if save_to_cache
\* wrote one less than 6 hours before (an entry exactly 6 hours old is a
\* miss) and it deserializes; a missing, expired or unreadable entry is a
\* miss, and the call never raises.
C12_LoadWithinTtl ==
    ret.op = "load_from_cache" =>
        LET entry == respCache[ret.key]
        IN  /\ ~ret.out.raised
            /\ ret.out.found =
                  (entry.exists /\ entry.readable /\ now - entry.mtime < 6 * OneHour)
            /\ (ret.out.found => ret.out.error_code = entry.error_code)

\* A readable entry read exactly 6 hours after it was written: a miss.
C12_ExactlySixHoursMiss ==
    /\ ret.op = "load_from_cache"
    /\ respCache[ret.key].exists
    /\ respCache[ret.key].readable
    /\ now - respCache[ret.key].mtime = 6 * OneHour
    /\ ~ret.out.found

\* The request has ended with a result built from a fetched document.
BuiltFromDocument ==
    /\ pc = "done"
    /\ "fault" \notin events
    /\ "extract_structured_data" \in events
    /\ HasContent(content)
    /\ ~content.synth

\* C13: the mismatch flag of a result built from a resolved document is true
\* exactly when the identifiers in the document do not correspond to the
\* requested one: a case-number request whose document carries another case
\* number and another internal id is flagged, and a full-link request whose
\* document carries the link's internal id is not.
C13_MismatchFollowsDocument ==
    BuiltFromDocument =>
        /\ (/\ norm.source_hint = "case"
            /\ content.caseNo # NoneSeq
            /\ content.caseNo # norm.case_no
            /\ content.cltr # None
            /\ content.cltr # cltr_no_discovered) => result.mismatch
        /\ (/\ norm.source_hint = "url"
            /\ Head(norm.requested_case) = "http"
            /\ content.cltr # None
            /\ case_key = <<"onbid:", content.cltr>>) => ~result.mismatch

\* A request by full link, answered with the detail page of that very
\* listing, and flagged as a mismatch.
C13_MatchingLinkFlagged ==
    /\ BuiltFromDocument
    /\ norm.source_hint = "url"
    /\ Head(norm.requested_case) = "http"
    /\ content = DetailDoc
    /\ case_key = <<"onbid:", content.cltr>>
    /\ result.mismatch

\* A request by case number, answered with the page of another listing,
\* and not flagged.
C13_OtherListingUnflagged ==
    /\ BuiltFromDocument
    /\ norm.requested_case = CaseKnown
    /\ content = OtherDetailDoc
    /\ ~result.mismatch

C15_StatusFollowsKeyCount ==
    pc = "done" =>
        /\ result.extracted_keys = Cardinality(result.keys \cap DataKeys)
        /\ result.extracted_keys \in 0..10
        /\ result.status = (IF result.extracted_keys >= 8 THEN "ok" ELSE "pending")
        /\ ("extract_structured_data" \notin events \/ "fault" \in events) =>
              (result.extracted_keys = 0 /\ result.status = "pending")

\* A result with exactly 8 counted fields, the three area fields among
\* them: status ok.
C15_EightKeysOk ==
    /\ pc = "done"
    /\ result.extracted_keys = 8
    /\ {"areas.building_m2", "areas.land_m2", "areas.land_right"} \subseteq result.keys
    /\ result.status = "ok"

\* The documented error taxonomy, REMOTE_HTTP_<n> taken for every status n
\* the upstream site answers with.
Taxonomy ==
    {"INVALID_INPUT", "REMOTE_HTTP_403", "CAPTCHA_DETECTED", "REMOTE_HTTP_404",
     "REMOTE_HTTP_500", "TIMEOUT", "ATTACHMENT_NONE", "ATTACHMENT_DOWNLOAD_FAIL",
     "PARSE_EMPTY", "UNKNOWN"}
      \cup {RemoteHttpName(n) : n \in Statuses}

\* C16: every error_code a result of parse_onbid_case carries is null or a
\* member of the documented taxonomy.
C16_ErrorCodeInTaxonomy ==
    result.error_code = None \/ result.error_code \in Taxonomy

\* A strict case request all of whose candidates failed: its result carries
\* the code REMOTE_HTTP_ERROR.
C16_StrictFailureCode ==
    /\ pc = "done"
    /\ strict_mode
    /\ norm.source_hint = "case"
    /\ fetch_error # None
    /\ result.error_code = "REMOTE_HTTP_ERROR"
    /\ result.error_code \notin Taxonomy

\* C17: every result for a request whose input normalized successfully
\* carries diagnostic info whose source kind is the request's and whose last
\* URL and last HTTP status are those of the last fetch performed, for
\* failed resolutions as for successful ones.  (last_url and http_status
\* hold the URL and the status of the latest detail fetch, unless the
\* allow-listed fallback has replaced the document; results of the except
\* clause are left aside.)
C17_DiagnosticInfo ==
    (pc = "done" /\ norm.case_key # NoneSeq /\ "fault" \notin events) =>
        /\ result.debug.source = norm.source_hint
        /\ ("net" \in events /\ last_url # None) =>
              result.debug.last_url = last_url
        /\ ("net" \in events /\ last_url # None /\ ~content.synth) =>
              result.debug.http_status = http_status

\* A strict case request whose detail fetches all answered 404: the result
\* names the source "unknown" and no URL or status.
C17_FailedResolutionNoDiagnostics ==
    /\ pc = "done"
    /\ "fault" \notin events
    /\ norm.source_hint = "case"
    /\ http_status = 404
    /\ last_url # None
    /\ result.debug = DefaultDebug

\* The recognised shapes: NNNN-NNNNN-NNN and onbid:<digits>, nothing before
\* or after.
IsCaseShape(s) == Len(s) = 5 /\ CasePatternCore(s)

IsOnbidShape(s) == Len(s) = 2 /\ s[1] = "onbid:" /\ s[2] \in DigitToks

\* C18: normalize_case_key maps empty or whitespace-only input to (invalid,
\* null); input beginning with a URL scheme to (url, onbid:<id>) if an
\* internal id can be extracted, else (invalid, null); the literal
\* onbid:<digits> to (url, the input); input that is exactly NNNN-NNNNN-NNN
\* to (case, case:<input>, display number = input); anything else to
\* (invalid, null).  A non-null case_key has exactly one of the two shapes,
\* and no input that contains or extends a shape is accepted.
C18_NormalizeExact ==
    ret.op = "normalize_case_key" =>
        LET input == ret.case_input
            out == ret.out
            id == IF SearchDigitsAfter(input, "cltrNo=") # NoneSeq
                    THEN SearchDigitsAfter(input, "cltrNo=")
                    ELSE SearchDigitsAfter(input, "/auction/case/")
            invalid == out.source_hint = "invalid" /\ out.case_key = NoneSeq
        IN  /\ IF ~Truthy(input) \/ input = <<" ">> THEN invalid
               ELSE IF Head(input) = "http"
                 THEN IF id # NoneSeq
                        THEN out.source_hint = "url" /\ out.case_key = <<"onbid:">> \o id
                        ELSE invalid
               ELSE IF IsOnbidShape(input)
                 THEN out.source_hint = "url" /\ out.case_key = input
               ELSE IF IsCaseShape(input)
                 THEN /\ out.source_hint = "case"
                      /\ out.case_key = <<"case:">> \o input
                      /\ out.case_no = input
               ELSE invalid
            /\ out.case_key # NoneSeq =>
                  \/ IsOnbidShape(out.case_key)
                  \/ Head(out.case_key) = "case:" /\ IsCaseShape(Tail(out.case_key))

\* The input onbid:onbid:1234567, accepted as the listing 1234567.
C18_RepeatedPrefixAccepted ==
    /\ ret.op = "normalize_case_key"
    /\ ret.case_input = <<"onbid:", "onbid:", "1234567">>
    /\ ret.out.source_hint = "url"
    /\ ret.out.case_key = <<"onbid:", "1234567">>

\* A case number followed by a line break, accepted with the line break in
\* its case key.
C18_TrailingNewlineAccepted ==
    /\ ret.op = "normalize_case_key"
    /\ ret.case_input = CaseKnown \o <<"\n">>
    /\ ret.out.source_hint = "case"
    /\ ret.out.case_key = <<"case:">> \o CaseKnown \o <<"\n">>

\* C19: fetch_content never raises: whatever the network call does (a
\* response, a timeout, a transport failure, any other fault while the
\* response is read) it returns an outcome in which exactly one of body
\* present and error kind present holds.
C19_FetchNeverRaises ==
    (ret.op = "fetch_content" /\ ret.done) =>
        /\ ~ret.raised
        /\ (~ret.outcome.content.none) # (ret.outcome.error # None)

\* A call that ended on its second attempt with an exception leaving
\* fetch_content.
C19_FaultEscapes ==
    /\ ret.op = "fetch_content"
    /\ ret.done
    /\ ret.raised
    /\ attempt = 1

\* C20: download_attachments is all-or-nothing for a non-empty candidate
\* list: it returns READY with one saved item per candidate, or, on any
\* persistence failure (the per-case directory cannot be created, a file
\* cannot be written), DOWNLOAD_FAIL with an empty saved list; it never
\* returns a partial list and never raises.
C20_DownloadAllOrNothing ==
    (ret.op = "download_attachments" /\ ret.n > 0) =>
        LET failed == \/ ret.disk.kind = "mkdir_fails"
                      \/ ret.disk.kind = "write_fails" /\ ret.disk.failAt <= ret.n
        IN  /\ ~ret.out.raised
            /\ IF failed
                 THEN ret.out.state = "DOWNLOAD_FAIL" /\ ret.out.saved = 0
                 ELSE ret.out.state = "READY" /\ ret.out.saved = ret.n

\* A call with three candidates whose per-case directory cannot be
\* created: the exception leaves download_attachments.
C20_MkdirFailureRaises ==
    /\ ret.op = "download_attachments"
    /\ ret.n = AttachmentCount
    /\ ret.disk.kind = "mkdir_fails"
    /\ ret.out.raised

\* The components of a price text: the digit group before the first eok
\* unit, the one before the first man unit, and the first digit group that
\* carries neither unit; 0 where there is none.
EokComponent(text) ==
    IF UnitMatch(text, "eok") = 0 THEN 0 ELSE text[UnitMatch(text, "eok")].v

ManComponent(text) ==
    IF UnitMatch(text, "man") = 0 THEN 0 ELSE text[UnitMatch(text, "man")].v

BareComponent(text) ==
    LET bare == {i \in 1..Len(text) :
                   /\ text[i].t = "num"
                   /\ (i < Len(text) => text[i + 1].t \notin {"eok", "man"})}
    IN  IF bare = {} THEN 0 ELSE text[CHOOSE i \in bare : \A j \in bare : i <= j].v

\* C21: parse_monetary_value returns the sum of the eok component x
\* 100,000,000, the man component x 10,000 and the bare-digit (won)
\* component of the text, each counted once, and null exactly when the text
\* holds no digit group.
C21_MonetarySum ==
    ret.op = "parse_monetary_value" =>
        LET text == StripBlanks(ret.text)
            digits == \E i \in 1..Len(text) : text[i].t = "num"
        IN  IF ~digits THEN ret.out = NoAmount
            ELSE ret.out = EokComponent(text) * 100000000
                             + ManComponent(text) * 10000
                             + BareComponent(text)

\* "2억 3500만 500원": the 500 won are left out of the sum.
C21_WonComponentDropped ==
    /\ ret.op = "parse_monetary_value"
    /\ ret.text = <<Num(2), Sym("eok"), Sym(" "), Num(3500), Sym("man"), Sym(" "),
                    Num(500), Sym("won")>>
    /\ ret.out = 235000000

\* The examples of the specification, as parse_monetary_value answers them.
C21_ExamplesHold ==
    ret.op = "parse_monetary_value" =>
        /\ ret.text = <<Num(2), Sym("eok"), Sym(" "), Num(3500), Sym("man"), Sym("won")>>
              => ret.out = 235000000
        /\ ret.text = <<Num(15), Sym("eok"), Sym(" "), Sym("won")>> => ret.out = 1500000000
        /\ ret.text = <<Num(850), Sym("man"), Sym("won")>> => ret.out = 8500000
        /\ ret.text = <<Num(5000), Sym("won")>> => ret.out = 5000
        /\ ret.text \in {<<>>, <<Sym("x")>>} => ret.out = NoAmount

\* C22: every network call of a caller, first attempts and retries alike,
\* starts at least min_request_interval (1.0 s) after the caller's previous
\* network call, the first call of a fetch that follows the last retry of
\* the previous fetch included.
C22_NetworkCallsOneSecondApart ==
    \A t \in Threads :
        netLog[t].prev > 0 => netLog[t].last - netLog[t].prev >= min_request_interval

\* A single caller: the second retry of its first fetch fails at once, and
\* the first attempt of its next fetch starts 0.8 s after that retry started.
C22_FetchAfterLastRetry ==
    \E t \in Threads :
        /\ \A u \in Threads \ {t} : thr[u].calls = 0
        /\ netLog[t].n = 2
        /\ thr[t].pc = "in_flight" /\ thr[t].attempt = 0
        /\ netLog[t].last = now
        /\ netLog[t].last - netLog[t].prev = 8

\* A retry starts at least 1.0 s after the attempt before it.
C22_RetryOneSecondLater ==
    \A t \in Threads :
        (thr[t].pc = "in_flight" /\ thr[t].attempt > 0 /\ netLog[t].prev > 0) =>
            netLog[t].last - netLog[t].prev >= min_request_interval

\* The attempts of the observed fetch_content call that ended with a timeout
\* or another transport failure.
FailedAttempts(log) == {i \in 1..Len(log) : log[i] \in {"timeout", "error"}}

\* C23: a fetch_content call makes at most Retries + 1 = 3 attempts; a
\* further attempt is made only after a timeout or transport failure, so any
\* HTTP response ends the fetch without retry; the outcome is TIMEOUT iff all
\* three attempts failed and the last one timed out, and UNKNOWN iff all
\* three failed and the last one was another transport failure.
C23_ThreeAttempts ==
    ret.op = "fetch_content" =>
        LET log == ret.log
            allFailed == Len(log) = Retries + 1 /\ FailedAttempts(log) = 1..(Retries + 1)
        IN  /\ Len(log) <= Retries + 1
            /\ \A i \in 1..(Len(log) - 1) : log[i] \in {"timeout", "error"}
            /\ (Len(log) > 0 /\ log[Len(log)] = "response") => ret.done
            /\ ~ret.done => (Len(log) = attempt /\ attempt <= Retries)
            /\ (ret.done /\ ~ret.raised) =>
                  /\ ret.outcome.error = "TIMEOUT"
                        <=> (allFailed /\ log[Retries + 1] = "timeout")
                  /\ ret.outcome.error = "UNKNOWN"
                        <=> (allFailed /\ log[Retries + 1] = "error")

\* A call whose three attempts failed, the last one by a timeout: TIMEOUT.
C23_ThirdAttemptTimedOut ==
    /\ ret.op = "fetch_content"
    /\ ret.done
    /\ ret.log = <<"timeout", "error", "timeout">>
    /\ ret.outcome.error = "TIMEOUT"

\* C24: a received response is mapped in this order of precedence: status
\* 403 gives REMOTE_HTTP_403 whatever the body; otherwise a body with a
\* CAPTCHA indicator gives CAPTCHA_DETECTED whatever the status; otherwise
\* status 200 gives the body, 404 REMOTE_HTTP_404, 500 and above
\* REMOTE_HTTP_500, and any other status REMOTE_HTTP_<code>.
C24_ResponseMapping ==
    (ret.op = "fetch_content" /\ ret.done /\ ret.last.kind = "response") =>
        LET status == ret.last.status
            body == ret.last.body
            out == ret.outcome
        IN  /\ ~ret.raised
            /\ out.http_status = status
            /\ IF status = 403
                 THEN out.error = "REMOTE_HTTP_403" /\ out.content = NoneDoc
               ELSE IF body.captcha
                 THEN out.error = "CAPTCHA_DETECTED" /\ out.content = NoneDoc
               ELSE IF status = 200
                 THEN out.error = None /\ out.content = body
               ELSE IF status = 404
                 THEN out.error = "REMOTE_HTTP_404" /\ out.content = NoneDoc
               ELSE IF status >= 500
                 THEN out.error = "REMOTE_HTTP_500" /\ out.content = NoneDoc
               ELSE out.error = RemoteHttpName(status) /\ out.content = NoneDoc

\* A 503 response whose body carries a CAPTCHA indicator, answered on the
\* second attempt: CAPTCHA_DETECTED, not REMOTE_HTTP_500.
C24_CaptchaBeforeStatus ==
    /\ ret.op = "fetch_content"
    /\ ret.done
    /\ Len(ret.log) = 2
    /\ ret.last = [kind |-> "response", status |-> 503, body |-> CaptchaDoc]
    /\ ret.outcome = Outcome(NoneDoc, 503, "CAPTCHA_DETECTED")

\* C25: in case mode the document handed to attachment detection and
\* extraction is always one a detail fetch returned with no fetch error, a
\* length above 1000 characters and acceptance by _is_detail_page, the id
\* that discovery found included; a candidate that failed one of the three
\* is never used, also when it is the last one tried.
C25_OnlyAcceptedDocument ==
    (pc = "step4" /\ norm.source_hint = "case" /\ "allowlist" \notin events) =>
        /\ "detail_accepted" \in events
        /\ DetailAccepted(Outcome(content, http_status, fetch_error), cltr_no_discovered)

\* Strict mode: discovery found the id 1234567, no candidate was accepted,
\* and the last candidate, the page of listing 7654321, goes to step 4.
C25_OtherListingUsed ==
    /\ pc = "step4"
    /\ strict_mode
    /\ norm.source_hint = "case"
    /\ cltr_no_discovered = "1234567"
    /\ "detail_accepted" \notin events
    /\ content = OtherDetailDoc

\* C26: under relaxed mode, when no detail candidate yielded a valid page,
\* the result is built from the allow-listed record if the requested case
\* number is in the allow-list, and otherwise the request ends with an error
\* result; a page that failed validation is never extracted into the result.
C26_RelaxedFallback ==
    (pc = "done" /\ ~strict_mode /\ norm.source_hint = "case"
       /\ "detail_accepted" \notin events /\ "fault" \notin events) =>
        IF _extract_real_property_data(case_key)
          THEN /\ "allowlist" \in events
               /\ content = _format_real_property_as_html(case_key)
               /\ result.keys \subseteq content.parsed \cup {"areas.land_right"}
          ELSE /\ result.status = "pending"
               /\ result.error_code # None
               /\ "extract_structured_data" \notin events
               /\ result.keys = {}

\* Relaxed mode, a case number outside the allow-list: no candidate was
\* accepted, and the last one, an error page, went through extraction.
C26_FailedPageExtracted ==
    /\ pc = "done"
    /\ ~strict_mode
    /\ norm.source_hint = "case"
    /\ ~_extract_real_property_data(case_key)
    /\ "detail_accepted" \notin events
    /\ "fault" \notin events
    /\ "extract_structured_data" \in events
    /\ content = ErrorDoc
    /\ result.keys # {}

\* The templates of the two stages, in the order of the code.
SearchTemplates ==
    <<"publicAnnounceList?q", "publicAnnounceList?searchKeyword", "searchIntegral?keyword">>

IdTemplates ==
    <<"publicAnnounceRlstDetail?cltrNo", "announceDetail?cltrNo",
      "collateralRealEstateDetail?cltrNo">>

LegacyTemplates ==
    <<"publicAnnounceRlstDetail?keyword", "publicAnnounceDetail?searchKeyword",
      "goodsDetail?searchKeyword">>

IsPrefix(a, b) == Len(a) <= Len(b) /\ a = SubSeq(b, 1, Len(a))

\* How many of the logged fetches used a search template.
SearchFetches(urls) ==
    Cardinality({i \in 1..Len(urls) : \E j \in 1..3 : urls[i] = SearchTemplates[j]})

\* C27: in case mode the discovery stage fetches the search templates in
\* their fixed order and stops at the first usable response from which an
\* internal id can be extracted: no later search template is fetched, and
\* the detail stage uses the id-based templates; if no template yields an id
\* each has been fetched exactly once and the detail stage uses the legacy
\* case-number templates.
C27_DiscoveryOrder ==
    norm.source_hint = "case" =>
        LET urls == fetchLog.urls
            n == SearchFetches(urls)
            details == SubSeq(urls, n + 1, Len(urls))
        IN  /\ IsPrefix(SubSeq(urls, 1, n), SearchTemplates)
            /\ IF cltr_no_discovered # None
                 THEN /\ stage # "search"
                      /\ details # <<>>
                      /\ IsPrefix(details, IdTemplates)
                 ELSE /\ IsPrefix(details, LegacyTemplates)
                      /\ details # <<>> => n = SearchUrlCount

\* The second search template yielded the id 1234567: the third one is not
\* fetched and the first id-based detail template follows.
C27_StoppedAtSecondTemplate ==
    /\ norm.source_hint = "case"
    /\ cltr_no_discovered = "1234567"
    /\ fetchLog.urls = <<"publicAnnounceList?q", "publicAnnounceList?searchKeyword",
                         "publicAnnounceRlstDetail?cltrNo">>

\* The bounds of a request: fetches per kind of request, attempts per fetch.
AttemptBounds ==
    LET urls == fetchLog.urls
        n == SearchFetches(urls)
    IN  /\ attempt <= Retries
        /\ fetchLog.attempts <= (Retries + 1) * Len(urls)
        /\ norm.source_hint = "url" =>
              /\ Len(urls) <= 1
              /\ (pc \in {"step4", "step6", "step10", "step12"} => Len(urls) = 1)
        /\ norm.source_hint = "case" =>
              /\ n <= SearchUrlCount
              /\ Len(urls) - n <= DetailUrlCount
              /\ Len(urls) <= 6
              /\ fetchLog.attempts <= 18
        /\ norm.source_hint \notin {"url", "case"} =>
              Len(urls) = 0 /\ fetchLog.attempts = 0

\* C28: every call of parse_onbid_case ends, with a bounded number of
\* network attempts whatever the upstream returns: a url request performs
\* exactly 1 fetch, a case request at most 6 (at most 3 discovery templates
\* and 3 detail candidates), each fetch making at most 3 attempts, so at most
\* 18 attempts per request; an invalid request performs none.
C28_BoundedAttempts ==
    /\ []AttemptBounds
    /\ (pc = "normalize") ~> (pc = "done")

\* A case request that ended after 6 fetches of 3 attempts each.
C28_EighteenAttempts ==
    /\ pc = "done"
    /\ norm.source_hint = "case"
    /\ Len(fetchLog.urls) = 6
    /\ fetchLog.attempts = 18

C30_ErrorResultNoMismatch ==
    (pc = "done" /\ result.error_code \in {"INVALID_INPUT", "REMOTE_HTTP_ERROR",
                                            "PARSE_EMPTY", "UNKNOWN"}
       /\ ("extract_structured_data" \notin events \/ "fault" \in events)) =>
        ~result.mismatch

\* Strict mode, the case number 2024-01774-006: every candidate failed, and
\* the error result says mismatch.
C30_FailedResolutionFlagged ==
    /\ pc = "done"
    /\ strict_mode
    /\ request.case = CaseKnown
    /\ result.error_code = "REMOTE_HTTP_ERROR"
    /\ result.requested_case = CaseKnown
    /\ result.case_no = CaseKnown
    /\ result.mismatch

====
